---- MODULE Spec2Model ----
(***************************************************************************)
(* Lease-based leader election of talos-kms-vault and the leadership gate  *)
(* in front of the KMS service.                                            *)
(*                                                                         *)
(*   pkg/leaderelection/lease.go     LeaseManager                          *)
(*   pkg/leaderelection/election.go  ElectionController                    *)
(*   pkg/leaderelection (callbacks)  CallbackBuilder                       *)
(*   pkg/server/leader.go            LeaderAwareServer (the gate)          *)
(*   cmd (main)                      the wiring of one instance            *)
(*                                                                         *)
(* Every instance runs one election loop (goroutine run) against one       *)
(* shared Lease object.  A backend call (Get / Create / Update) is one     *)
(* atomic step at the backend; the steps of different instances, the       *)
(* callback goroutines, the request handlers and the clock interleave      *)
(* freely.  Any backend call may fail (transport error, cancelled context, *)
(* a write rejected by the API server).  The clientset talks to the        *)
(* Kubernetes API server: a Create of a Lease that exists is rejected, and *)
(* an Update carries the resourceVersion of the object it was read as and  *)
(* is rejected when the stored Lease has been written since.  The stored   *)
(* Lease has been written since it was read exactly when it differs from   *)
(* what was read, but for a renewal that writes the spec it found; such a  *)
(* write leaves the state the writer would find on reading again.          *)
(*                                                                         *)
(* Time is counted in whole seconds.                                       *)
(***************************************************************************)
EXTENDS Integers, FiniteSets, Sequences, TLC

\* ------------------------------------------------------------------ bounds
\* The clock stops advancing at MaxTime.
MaxTime == 2
\* Callback goroutines of one kind that may be waiting to run on one instance.
MaxPending == 1
\* The holder changes stop once the Lease counts MaxTransitions of them.
MaxTransitions == 2
\* A counter of a controller whose metrics are followed stops at MaxCount.
MaxCount == 2

\* LeaseConfig.LeaseDuration, in seconds (scaled down from the default).
LeaseDuration == 1

\* LeaseConfig.Identity of the instances that share the lease.
Ids == {"A", "B"}

\* A nil *string / *MicroTime of the LeaseSpec.
NilId == "<nil>"
NilTime == -1

\* int32 arithmetic of LeaseTransitions.
MaxInt32 == 2147483647
Int32Inc(n) == IF n = MaxInt32 THEN -MaxInt32 - 1 ELSE n + 1

VARIABLES
    clock,          \* time.Now(), the same for every instance
    lease,          \* the Lease object stored by the backend
    pc,             \* where the election goroutine of each controller is
    now,            \* AcquireLease's local `now`
    read,           \* what AcquireLease's / ReleaseLease's Get returned
    ret,            \* what AcquireLease returned, and the write it issued
    isRunning,      \* ElectionController.isRunning
    isLeader,       \* ElectionController.isLeader
    currentLeader,  \* ElectionController.currentLeader
    ctxDone,        \* the governing context of run is cancelled
    stopCh,         \* ElectionController.stopCh is closed
    stoppedCh,      \* ElectionController.stoppedCh is closed
    gate,           \* LeaderAwareServer: isLeader, isActive and the
                    \* controller its electionController field points at
    pending,        \* callback goroutines dispatched and not yet run, and
                    \* the callbacks that were entered and never return
    req,            \* the gated request being served
    api,            \* the goroutines calling Start / Stop, and what they got
    wrap,           \* a call of a callback of BuildGracefulShutdownCallbacks
    metrics,        \* ElectionController.leadershipChanges, acquisitionErrors,
                    \* renewalErrors and lastLeaderChange, of the controllers
                    \* whose metrics are followed
    env,            \* the process environment DefaultIdentity reads, and
                    \* what its last call returned
    notify,         \* the callbacks of the controllers whose notifications
                    \* are followed: the leadership callback dispatched
                    \* last, the identity read by the iteration that
                    \* launched each OnNewLeader goroutine, and what the
                    \* last call of OnNewLeader received
    mu,             \* ec.mu of a controller and las.mu of its gate
    th              \* where each goroutine working on these mutexes is

vars == <<clock, lease, pc, now, read, ret, isRunning, isLeader, currentLeader,
          ctxDone, stopCh, stoppedCh, gate, pending, req, api, wrap,
          metrics, env, notify, mu, th>>

ctrlVars == <<pc, now, read, ret, isRunning, isLeader, currentLeader,
              ctxDone, stopCh, stoppedCh>>

\* ------------------------------------------------------------ the Lease
\* No Lease object under (namespace, name).
NoLease ==
    [exists |-> FALSE, holder |-> NilId, duration |-> 0,
     acquireTime |-> NilTime, renewTime |-> NilTime, transitions |-> 0]

\* The result of a Get that has not been issued, and of one that failed.
NoRead == [status |-> "none", lease |-> NoLease]
ReadErr(kind) == [status |-> kind, lease |-> NoLease]
ReadOk(l) == [status |-> "ok", lease |-> l]

\* AcquireLease has not returned.
NoRet == [acquired |-> FALSE, err |-> "none", call |-> "none"]
\* (acquired, err) and the write AcquireLease issued: "create", "update", "none".
Ret(a, e, w) == [acquired |-> a, err |-> e, call |-> w]

\* createLease counting its own creation as a change of holder.
NewLease_CountsCreation(self, t) ==
    [exists |-> TRUE, holder |-> self, duration |-> LeaseDuration,
     acquireTime |-> t, renewTime |-> t, transitions |-> 1]

\* The Lease object createLease sends.
NewLease(self, t) ==
    [exists |-> TRUE, holder |-> self, duration |-> LeaseDuration,
     acquireTime |-> t, renewTime |-> t, transitions |-> 0]

\* canAcquireLease never finding another holder's lease expired.
canAcquireLease_IgnoresExpiry(self, l, t) ==
    IF l.holder # NilId /\ l.holder = self THEN TRUE
    ELSE IF l.holder = NilId THEN TRUE
    ELSE IF l.renewTime = NilTime THEN TRUE
    ELSE FALSE

\* canAcquireLease finding a lease expired one second early.
canAcquireLease_ExpiresEarly(self, l, t) ==
    IF l.holder # NilId /\ l.holder = self THEN TRUE
    ELSE IF l.holder = NilId THEN TRUE
    ELSE IF l.renewTime = NilTime THEN TRUE
    ELSE t >= l.renewTime + l.duration

\* canAcquireLease(lease, now).
canAcquireLease(self, l, t) ==
    IF l.holder # NilId /\ l.holder = self THEN TRUE
    ELSE IF l.holder = NilId THEN TRUE
    ELSE IF l.renewTime = NilTime THEN TRUE
    ELSE t > l.renewTime + l.duration

\* updateLease taking every update for a change of holder.
UpdatedLease_AlwaysNewTerm(self, l, t) ==
    [l EXCEPT !.holder = self, !.renewTime = t, !.acquireTime = t,
              !.transitions = Int32Inc(l.transitions)]

\* updateLease counting a change of holder only when it takes the Lease from
\* a holder.
UpdatedLease_CountsTakeoversOnly(self, l, t) ==
    LET wasLeader == l.holder = NilId \/ l.holder = self
        renewed == [l EXCEPT !.holder = self, !.renewTime = t]
    IN  IF wasLeader THEN renewed
        ELSE [renewed EXCEPT !.acquireTime = t,
                             !.transitions = Int32Inc(l.transitions)]

\* The Lease object updateLease sends: the one it read, modified in place.
UpdatedLease(self, l, t) ==
    LET wasLeader == l.holder # NilId /\ l.holder = self
        renewed == [l EXCEPT !.holder = self, !.renewTime = t]
    IN  IF wasLeader THEN renewed
        ELSE [renewed EXCEPT !.acquireTime = t,
                             !.transitions = Int32Inc(l.transitions)]

\* The Lease object ReleaseLease sends.
ReleasedLease(l) ==
    [l EXCEPT !.holder = NilId, !.renewTime = NilTime, !.acquireTime = NilTime]

\* LeaseInfo.HolderIdentity of GetLeaseInfo: "" for a nil holder.
InfoHolder(l) == IF l.holder # NilId THEN l.holder ELSE ""

\* ------------------------------------------------------------ the gate
\* LeaderAwareServer.checkLeadership.
checkLeadership(i) == gate[i].isLeader /\ gate[i].isActive

\* LeaderAwareServer.IsReady.
IsReady(i) == gate[i].isActive

\* ElectionController.IsLeader / GetCurrentLeader.
IsLeader(c) == isLeader[c]
GetCurrentLeader(c) == currentLeader[c]

\* The process of instance c has not died of a panic.
Alive(c) == pc[c] # "panic"

\* No gated request is being served.
NoRequest ==
    [stage |-> "idle", inst |-> "", op |-> "", admitted |-> FALSE,
     invoked |-> FALSE, inner |-> "", result |-> ""]

\* No callback goroutine of a controller is waiting to run: none launched
\* for OnStartedLeading (become), OnStoppedLeading (lose) or OnNewLeader
\* (newLeader), and no callback hangs.
NoCallbacks == [become |-> 0, lose |-> 0, newLeader |-> 0, stuck |-> {}]

\* No callback built by BuildGracefulShutdownCallbacks has been called.
\*   kind    OnStartedLeading / OnStoppedLeading
\*   fn      the function handed to the builder is not nil
\*   ctxDone the context handed to OnStartedLeading is cancelled
\*   start   when the call was made
\*   stage   "select" while the callback waits, "returned" afterwards
\*   how     what ended the wait: "done", "timeout", or "nil" without a wait
\*   fnState the goroutine running fn: "launched", "running", "done"
\*   calls   how many times fn has been entered
NoWrap ==
    [kind |-> "none", fn |-> FALSE, ctxDone |-> FALSE, start |-> 0,
     stage |-> "idle", how |-> "", fnState |-> "none", calls |-> 0]

\* The goroutines that call Start and Stop of a controller.
Callers == {"g1", "g2"}

\* A caller that has called nothing, and one whose call on controller c has
\* returned err ("nil" for a Stop, which returns nothing).
NoCall == [op |-> "none", on |-> "", stage |-> "idle", err |-> ""]
Called(op, c, err) == [op |-> op, on |-> c, stage |-> "returned", err |-> err]

\* The metrics of a controller as NewElectionController leaves them: the
\* counters at 0 and lastLeaderChange the zero time.Time.
NoMetrics ==
    [leadershipChanges |-> 0, acquisitionErrors |-> 0, renewalErrors |-> 0,
     lastLeaderChange |-> NilTime]

\* The metrics of the controllers in S are followed, those of the others are
\* left out of the state.
Followed(S) == [c \in S |-> NoMetrics]

\* An environment variable that is not set; os.Getenv returns "" for it as
\* for one set to "".
Unset == "<unset>"
Getenv(v) == IF v = Unset THEN "" ELSE v

\* The environment of a process in which nothing is set and the kernel
\* reports the host name "vm"; DefaultIdentity has not been called.
NotCalled == "<not called>"
NoEnv ==
    [LEADER_ELECTION_IDENTITY |-> Unset, POD_NAME |-> Unset,
     hostname |-> "vm", hostnameErr |-> FALSE, returned |-> NotCalled]

\* The callbacks of a controller, none dispatched yet:
\*   last      the callback dispatched last of OnStartedLeading ("become")
\*             and OnStoppedLeading ("lose")
\*   launched  the holder identity read by the iteration that launched each
\*             OnNewLeader goroutine that has not begun to run, oldest first
\*   started   the same for the goroutines that have begun to run and have
\*             not evaluated ec.currentLeader yet
\*   read      of the last call of OnNewLeader, the identity read by the
\*             iteration that launched it
\*   got       the identity that call received
None == "<none>"
NoNotified ==
    [last |-> None, launched |-> <<>>, started |-> <<>>, read |-> None,
     got |-> None]

\* The notifications of the controllers in S are followed, those of the
\* others are left out of the state.
Notified(S) == [c \in S |-> NoNotified]

\* A sync.RWMutex nobody holds or waits for:
\*   w  the goroutine holding it for writing
\*   a  the goroutine in Lock that has the writers' mutex, holds back the
\*      RLock calls that follow and waits for the readers to leave
\*   r  the goroutines holding it for reading
\*   p  the goroutines blocked in RLock, which the next Unlock lets in
\* A goroutine in Lock that has not got the writers' mutex is at its Lock
\* statement and nowhere in the record.
Unlocked == [w |-> "", a |-> "", r |-> {}, p |-> {}]

\* ec.mu of the controller and las.mu of the gate of one instance.
NoLocks == [ec |-> Unlocked, las |-> Unlocked]

\* The goroutines that take these mutexes, none of them begun: the one
\* calling LeaderAwareServer.Start and Stop (main), the election loop (run),
\* a goroutine running OnBecomeLeader or OnLoseLeadership (callback), a
\* gated request (request), and a call of GetLeadershipInfo (info).
Threads == {"main", "run", "callback", "request", "info"}
NoThreads == [t \in Threads |-> "idle"]

\* NewLeaderAwareServer(server, electionController, logger); ec tells which
\* controller was handed over: "started", the one whose loop runs, or
\* "first", one that is never started.
NewLeaderAwareServer(ec) ==
    [isLeader |-> FALSE, isActive |-> FALSE, electionController |-> ec]

\* ----------------------------------------------------------------- Init
\* The instances as main assembles them: it hands NewLeaderAwareServer a
\* first controller and then starts a second one, built with the server's
\* callbacks.
Init ==
    /\ clock = 0
    /\ lease = NoLease
    /\ pc = [c \in Ids |-> "new"]
    /\ now = [c \in Ids |-> 0]
    /\ read = [c \in Ids |-> NoRead]
    /\ ret = [c \in Ids |-> NoRet]
    /\ isRunning = [c \in Ids |-> FALSE]
    /\ isLeader = [c \in Ids |-> FALSE]
    /\ currentLeader = [c \in Ids |-> ""]
    /\ ctxDone = [c \in Ids |-> FALSE]
    /\ stopCh = [c \in Ids |-> FALSE]
    /\ stoppedCh = [c \in Ids |-> FALSE]
    /\ gate = [c \in Ids |-> NewLeaderAwareServer("first")]
    /\ pending = [c \in Ids |-> NoCallbacks]
    /\ req = NoRequest
    /\ api = [k \in Callers |-> NoCall]
    /\ wrap = NoWrap
    /\ metrics = Followed({})
    /\ env = NoEnv
    /\ notify = Notified({})
    /\ mu = NoLocks
    /\ th = NoThreads

\* An instance assembled around one controller: the gate asks the controller
\* that runs the loop, and the controller's callbacks are the gate's.
InitWired ==
    /\ clock = 0
    /\ lease = NoLease
    /\ pc = [c \in Ids |-> "new"]
    /\ now = [c \in Ids |-> 0]
    /\ read = [c \in Ids |-> NoRead]
    /\ ret = [c \in Ids |-> NoRet]
    /\ isRunning = [c \in Ids |-> FALSE]
    /\ isLeader = [c \in Ids |-> FALSE]
    /\ currentLeader = [c \in Ids |-> ""]
    /\ ctxDone = [c \in Ids |-> FALSE]
    /\ stopCh = [c \in Ids |-> FALSE]
    /\ stoppedCh = [c \in Ids |-> FALSE]
    /\ gate = [c \in Ids |-> NewLeaderAwareServer("started")]
    /\ pending = [c \in Ids |-> NoCallbacks]
    /\ req = NoRequest
    /\ api = [k \in Callers |-> NoCall]
    /\ wrap = NoWrap
    /\ metrics = Followed({})
    /\ env = NoEnv
    /\ notify = Notified({})
    /\ mu = NoLocks
    /\ th = NoThreads

\* ------------------------------------------------------------ the clock
Tick ==
    /\ clock < MaxTime
    /\ clock' = clock + 1
    /\ UNCHANGED <<lease, ctrlVars, gate, pending, req, api, wrap,
                   metrics, env, notify, mu, th>>

\* ------------------------------------------------- ElectionController.Start
\* Start: isRunning is set and the goroutine run is launched.  A controller
\* whose loop has exited after Stop can be started again.
Start(c) ==
    /\ pc[c] \in {"new", "exited"}
    /\ ~isRunning[c]
    /\ isRunning' = [isRunning EXCEPT ![c] = TRUE]
    /\ pc' = [pc EXCEPT ![c] = "start"]
    /\ UNCHANGED <<clock, lease, now, read, ret, isLeader, currentLeader,
                   ctxDone, stopCh, stoppedCh, gate, pending, req, api, wrap,
                   metrics, env, notify, mu, th>>

\* Stop: isRunning is cleared and stopCh closed (closing it a second time
\* panics); the caller then waits for stoppedCh.
Stop(c) ==
    /\ Alive(c)
    /\ isRunning[c]
    /\ isRunning' = [isRunning EXCEPT ![c] = FALSE]
    /\ IF stopCh[c]
       THEN pc' = [pc EXCEPT ![c] = "panic"] /\ UNCHANGED stopCh
       ELSE stopCh' = [stopCh EXCEPT ![c] = TRUE] /\ UNCHANGED pc
    /\ UNCHANGED <<clock, lease, now, read, ret, isLeader, currentLeader,
                   ctxDone, stoppedCh, gate, pending, req, api, wrap,
                   metrics, env, notify, mu, th>>

\* Start restarting the loop of a controller that is running.
CallStart_Relaunches(k, c) ==
    /\ Alive(c)
    /\ api[k].stage \in {"idle", "returned"}
    /\ pc[c] \notin {"release", "clear", "released"}
    /\ isRunning' = [isRunning EXCEPT ![c] = TRUE]
    /\ pc' = [pc EXCEPT ![c] = "start"]
    /\ api' = [api EXCEPT ![k] = Called("Start", c, "nil")]
    /\ UNCHANGED <<clock, lease, now, read, ret, isLeader, currentLeader,
                   ctxDone, stopCh, stoppedCh, gate, pending, req, wrap,
                   metrics, env, notify, mu, th>>

\* Start called by goroutine k: an error when isRunning is set; otherwise
\* isRunning is set, the goroutine run is launched and Start returns nil.
CallStart(k, c) ==
    /\ Alive(c)
    /\ api[k].stage \in {"idle", "returned"}
    /\ IF isRunning[c]
       THEN /\ api' = [api EXCEPT ![k] =
                          Called("Start", c, "election controller is already running")]
            /\ UNCHANGED <<pc, isRunning>>
       ELSE /\ pc[c] \in {"new", "exited"}
            /\ isRunning' = [isRunning EXCEPT ![c] = TRUE]
            /\ pc' = [pc EXCEPT ![c] = "start"]
            /\ api' = [api EXCEPT ![k] = Called("Start", c, "nil")]
    /\ UNCHANGED <<clock, lease, now, read, ret, isLeader, currentLeader,
                   ctxDone, stopCh, stoppedCh, gate, pending, req, wrap,
                   metrics, env, notify, mu, th>>

\* Stop called by goroutine k: isRunning is read and cleared under the
\* mutex; Stop returns at once if it was not set.
CallStop(k, c) ==
    /\ Alive(c)
    /\ api[k].stage \in {"idle", "returned"}
    /\ isRunning' = [isRunning EXCEPT ![c] = FALSE]
    /\ api' = [api EXCEPT ![k] =
                  IF isRunning[c]
                  THEN [op |-> "Stop", on |-> c, stage |-> "close", err |-> ""]
                  ELSE Called("Stop", c, "nil")]
    /\ UNCHANGED <<clock, lease, pc, now, read, ret, isLeader, currentLeader,
                   ctxDone, stopCh, stoppedCh, gate, pending, req, wrap,
                   metrics, env, notify, mu, th>>

\* close(ec.stopCh) of that Stop; closing a closed channel panics.
StopClose(k) ==
    /\ api[k].stage = "close"
    /\ Alive(api[k].on)
    /\ IF stopCh[api[k].on]
       THEN /\ pc' = [pc EXCEPT ![api[k].on] = "panic"]
            /\ api' = [api EXCEPT ![k].stage = "panicked"]
            /\ UNCHANGED stopCh
       ELSE /\ stopCh' = [stopCh EXCEPT ![api[k].on] = TRUE]
            /\ api' = [api EXCEPT ![k].stage = "wait"]
            /\ UNCHANGED pc
    /\ UNCHANGED <<clock, lease, now, read, ret, isRunning, isLeader,
                   currentLeader, ctxDone, stoppedCh, gate, pending,
                   req, wrap,
                   metrics, env, notify, mu, th>>

\* <-ec.stoppedCh of that Stop: it returns once stoppedCh is closed.
StopWait(k) ==
    /\ api[k].stage = "wait"
    /\ Alive(api[k].on)
    /\ stoppedCh[api[k].on]
    /\ api' = [api EXCEPT ![k] = Called(api[k].op, api[k].on, "nil")]
    /\ UNCHANGED <<clock, lease, ctrlVars, gate, pending, req, wrap,
                   metrics, env, notify, mu, th>>

\* The context handed to Start is cancelled (SIGINT in main).
Cancel(c) ==
    /\ pc[c] \notin {"new", "panic"}
    /\ ~ctxDone[c]
    /\ ctxDone' = [ctxDone EXCEPT ![c] = TRUE]
    /\ UNCHANGED <<clock, lease, pc, now, read, ret, isRunning, isLeader,
                   currentLeader, stopCh, stoppedCh, gate, pending, req,
                   api, wrap,
                   metrics, env, notify, mu, th>>

\* ---------------------------------------------- LeaseManager.AcquireLease
\* run calls tryAcquireLease, at once after Start and then at every tick of
\* the ticker; AcquireLease takes `now`.
BeginAcquire(c) ==
    /\ pc[c] \in {"start", "select"}
    /\ pc' = [pc EXCEPT ![c] = "get"]
    /\ now' = [now EXCEPT ![c] = clock]
    /\ UNCHANGED <<clock, lease, read, ret, isRunning, isLeader, currentLeader,
                   ctxDone, stopCh, stoppedCh, gate, pending, req, api, wrap,
                   metrics, env, notify, mu, th>>

\* The Get of AcquireLease: the Lease, NotFound when there is none, or
\* another error.
GetLease(c) ==
    /\ pc[c] = "get"
    /\ \/ /\ lease.exists
          /\ read' = [read EXCEPT ![c] = ReadOk(lease)]
       \/ /\ ~lease.exists
          /\ read' = [read EXCEPT ![c] = ReadErr("notfound")]
       \/ read' = [read EXCEPT ![c] = ReadErr("failed")]
    /\ pc' = [pc EXCEPT ![c] = "decide"]
    /\ UNCHANGED <<clock, lease, now, ret, isRunning, isLeader, currentLeader,
                   ctxDone, stopCh, stoppedCh, gate, pending, req, api, wrap,
                   metrics, env, notify, mu, th>>

\* The stored Lease still has the resourceVersion it was read with.
Unwritten(stored, l) == stored = l

\* AcquireLease whose Create replaces a Lease that exists.
AcquireOutcome_CreateOverwrites(self, rd, t, stored, ok) ==
    IF rd.status # "ok"
    THEN IF ok
         THEN <<Ret(TRUE, "nil", "create"), NewLease(self, t)>>
         ELSE <<Ret(FALSE, "failed to create lease", "create"), stored>>
    ELSE IF canAcquireLease(self, rd.lease, t)
         THEN IF ok /\ Unwritten(stored, rd.lease)
              THEN <<Ret(TRUE, "nil", "update"), UpdatedLease(self, rd.lease, t)>>
              ELSE <<Ret(FALSE, "failed to update lease", "update"), stored>>
         ELSE <<Ret(FALSE, "nil", "none"), stored>>

\* AcquireLease after its Get, as a pair <<what it returns, the Lease stored
\* afterwards>>; ok: the write it issues, if any, succeeds at the backend.
\*   Get failed         -> createLease (Create fails when the Lease exists)
\*   canAcquireLease    -> updateLease
\*   otherwise          -> (false, nil), nothing written
AcquireOutcome(self, rd, t, stored, ok) ==
    IF rd.status # "ok"
    THEN IF ok /\ ~stored.exists
         THEN <<Ret(TRUE, "nil", "create"), NewLease(self, t)>>
         ELSE <<Ret(FALSE, "failed to create lease", "create"), stored>>
    ELSE IF canAcquireLease(self, rd.lease, t)
         THEN IF ok /\ Unwritten(stored, rd.lease)
              THEN <<Ret(TRUE, "nil", "update"), UpdatedLease(self, rd.lease, t)>>
              ELSE <<Ret(FALSE, "failed to update lease", "update"), stored>>
         ELSE <<Ret(FALSE, "nil", "none"), stored>>

\* createLease: the Lease is created, unless the Create fails.
CreateLease(c) ==
    /\ pc[c] = "decide"
    /\ read[c].status # "ok"
    /\ \E ok \in BOOLEAN :
          LET out == AcquireOutcome(c, read[c], now[c], lease, ok)
          IN  ret' = [ret EXCEPT ![c] = out[1]] /\ lease' = out[2]
    /\ pc' = [pc EXCEPT ![c] = "result"]
    /\ UNCHANGED <<clock, now, read, isRunning, isLeader, currentLeader,
                   ctxDone, stopCh, stoppedCh, gate, pending, req, api, wrap,
                   metrics, env, notify, mu, th>>

\* updateLease.
UpdateLease(c) ==
    /\ pc[c] = "decide"
    /\ read[c].status = "ok"
    /\ canAcquireLease(c, read[c].lease, now[c])
    /\ read[c].lease.holder = c \/ read[c].lease.transitions < MaxTransitions
    /\ \E ok \in BOOLEAN :
          LET out == AcquireOutcome(c, read[c], now[c], lease, ok)
          IN  ret' = [ret EXCEPT ![c] = out[1]] /\ lease' = out[2]
    /\ pc' = [pc EXCEPT ![c] = "result"]
    /\ UNCHANGED <<clock, now, read, isRunning, isLeader, currentLeader,
                   ctxDone, stopCh, stoppedCh, gate, pending, req, api, wrap,
                   metrics, env, notify, mu, th>>

\* The Lease is held by somebody else and has not expired.
NotEligible(c) ==
    /\ pc[c] = "decide"
    /\ read[c].status = "ok"
    /\ ~canAcquireLease(c, read[c].lease, now[c])
    /\ LET out == AcquireOutcome(c, read[c], now[c], lease, TRUE)
       IN  ret' = [ret EXCEPT ![c] = out[1]] /\ lease' = out[2]
    /\ pc' = [pc EXCEPT ![c] = "result"]
    /\ UNCHANGED <<clock, now, read, isRunning, isLeader, currentLeader,
                   ctxDone, stopCh, stoppedCh, gate, pending, req, api, wrap,
                   metrics, env, notify, mu, th>>

\* ----------------------------------- ElectionController.tryAcquireLease
\* A callback goroutine is launched: one more is waiting to run.
Dispatch(p, kind) == [p EXCEPT ![kind] = @ + 1]

\* The loop launching a callback only when none of the instance hangs.
CanDispatch_WaitsForCallbacks(c, kind) ==
    pending[c][kind] < MaxPending /\ pending[c].stuck = {}

\* The goroutines of one kind waiting to run stay within MaxPending.
CanDispatch(c, kind) == pending[c][kind] < MaxPending

\* A counter of c is incremented, if the metrics of c are followed.
CanCount(c, field) == c \in DOMAIN metrics => metrics[c][field] < MaxCount
Count(m, c, field) ==
    IF c \in DOMAIN m THEN [m EXCEPT ![c][field] = @ + 1] ELSE m

\* ec.lastLeaderChange = time.Now().
Stamp(m, c, t) ==
    IF c \in DOMAIN m THEN [m EXCEPT ![c].lastLeaderChange = t] ELSE m

\* OnStartedLeading or OnStoppedLeading is dispatched: launched in a
\* goroutine, or called by releaseLeadershipOnExit.
Dispatched(n, c, kind) ==
    IF c \in DOMAIN n /\ kind # "none" THEN [n EXCEPT ![c].last = kind] ELSE n

\* `go func() { ec.callbacks.OnNewLeader(ec.currentLeader) }()` in an
\* iteration that has read the holder identity id.
Launch(n, c, id) ==
    IF c \in DOMAIN n THEN [n EXCEPT ![c].launched = Append(@, id)] ELSE n

\* The oldest of these goroutines runs at once: it evaluates
\* ec.currentLeader, finds id and calls OnNewLeader with it.
Receive(n, c, id) ==
    IF c \in DOMAIN n
    THEN [n EXCEPT ![c].launched = Tail(@),
                   ![c].read = Head(n[c].launched),
                   ![c].got = id]
    ELSE n

\* stepDown: isLeader is cleared and, if it was set, OnStoppedLeading is
\* launched in a goroutine.
stepDown(c) ==
    /\ isLeader' = [isLeader EXCEPT ![c] = FALSE]
    /\ IF isLeader[c]
       THEN /\ pending' = [pending EXCEPT ![c] = Dispatch(@, "lose")]
            /\ notify' = Dispatched(notify, c, "lose")
       ELSE UNCHANGED <<pending, notify>>

\* tryAcquireLease counting a leader's failure as a renewal error.
ErrorCounter_ByMeaning(leading) ==
    IF leading THEN "renewalErrors" ELSE "acquisitionErrors"

\* The counter tryAcquireLease increments when AcquireLease fails.
ErrorCounter(leading) ==
    IF leading THEN "acquisitionErrors" ELSE "renewalErrors"

\* AcquireLease returned an error: the error is counted and the controller
\* steps down if it leads.
AcquireFailed(c) ==
    /\ pc[c] = "result"
    /\ ret[c].err # "nil"
    /\ isLeader[c] => CanDispatch(c, "lose")
    /\ CanCount(c, ErrorCounter(isLeader[c]))
    /\ metrics' = Count(metrics, c, ErrorCounter(isLeader[c]))
    /\ IF isLeader[c]
       THEN stepDown(c)
       ELSE UNCHANGED <<isLeader, pending, notify>>
    /\ pc' = [pc EXCEPT ![c] = "select"]
    /\ now' = [now EXCEPT ![c] = 0]
    /\ read' = [read EXCEPT ![c] = NoRead]
    /\ ret' = [ret EXCEPT ![c] = NoRet]
    /\ UNCHANGED <<clock, lease, isRunning, currentLeader, ctxDone, stopCh,
                   stoppedCh, gate, req, api, wrap, env, mu, th>>

\* GetLeaseInfo failed: tryAcquireLease returns and leaves the state alone.
LeaseInfoFailed(c) ==
    /\ pc[c] = "result"
    /\ ret[c].err = "nil"
    /\ pc' = [pc EXCEPT ![c] = "select"]
    /\ now' = [now EXCEPT ![c] = 0]
    /\ read' = [read EXCEPT ![c] = NoRead]
    /\ ret' = [ret EXCEPT ![c] = NoRet]
    /\ UNCHANGED <<clock, lease, isRunning, isLeader, currentLeader, ctxDone,
                   stopCh, stoppedCh, gate, pending, req, api, wrap,
                   metrics, env, notify, mu, th>>

\* updateLeadershipState launching OnStartedLeading whenever the lease is
\* held, a renewal included.
Transition_OnEveryAcquire(wasLeader, acquired) ==
    IF acquired THEN "become"
    ELSE IF wasLeader THEN "lose" ELSE "none"

\* updateLeadershipState(acquired, leaseInfo): the callback it launches,
\* "none" when isLeader does not change.
Transition(wasLeader, acquired) ==
    IF wasLeader = acquired THEN "none"
    ELSE IF acquired THEN "become" ELSE "lose"

\* updateLeadershipState keeping isLeader once it is set.
updateLeadershipState_KeepsLeading(c) ==
    /\ pc[c] = "result"
    /\ ret[c].err = "nil"
    /\ lease.exists
    /\ LET kind == Transition(isLeader[c], ret[c].acquired)
           leadershipChanged == isLeader[c] # ret[c].acquired
           leaderChanged == currentLeader[c] # InfoHolder(lease)
           first == IF kind = "none" THEN pending[c]
                    ELSE Dispatch(pending[c], kind)
       IN  /\ kind # "none" => CanDispatch(c, kind)
           /\ leaderChanged => CanDispatch(c, "newLeader")
           /\ pending' = [pending EXCEPT ![c] =
                             IF leaderChanged THEN Dispatch(first, "newLeader")
                             ELSE first]
           /\ IF leadershipChanged \/ leaderChanged
              THEN /\ CanCount(c, "leadershipChanges")
                   /\ metrics' = Count(Stamp(metrics, c, clock), c,
                                       "leadershipChanges")
              ELSE UNCHANGED metrics
           /\ notify' = IF leaderChanged
                        THEN Launch(Dispatched(notify, c, kind), c,
                                    InfoHolder(lease))
                        ELSE Dispatched(notify, c, kind)
    /\ isLeader' = [isLeader EXCEPT ![c] = isLeader[c] \/ ret[c].acquired]
    /\ currentLeader' = [currentLeader EXCEPT ![c] = InfoHolder(lease)]
    /\ pc' = [pc EXCEPT ![c] = "select"]
    /\ now' = [now EXCEPT ![c] = 0]
    /\ read' = [read EXCEPT ![c] = NoRead]
    /\ ret' = [ret EXCEPT ![c] = NoRet]
    /\ UNCHANGED <<clock, lease, isRunning, ctxDone, stopCh, stoppedCh,
                   gate, req, api, wrap, env, mu, th>>

\* GetLeaseInfo succeeded: updateLeadershipState(acquired, leaseInfo).
updateLeadershipState(c) ==
    /\ pc[c] = "result"
    /\ ret[c].err = "nil"
    /\ lease.exists
    /\ LET kind == Transition(isLeader[c], ret[c].acquired)
           leadershipChanged == isLeader[c] # ret[c].acquired
           leaderChanged == currentLeader[c] # InfoHolder(lease)
           first == IF kind = "none" THEN pending[c]
                    ELSE Dispatch(pending[c], kind)
       IN  /\ kind # "none" => CanDispatch(c, kind)
           /\ leaderChanged => CanDispatch(c, "newLeader")
           /\ pending' = [pending EXCEPT ![c] =
                             IF leaderChanged THEN Dispatch(first, "newLeader")
                             ELSE first]
           /\ IF leadershipChanged \/ leaderChanged
              THEN /\ CanCount(c, "leadershipChanges")
                   /\ metrics' = Count(Stamp(metrics, c, clock), c,
                                       "leadershipChanges")
              ELSE UNCHANGED metrics
           /\ notify' = IF leaderChanged
                        THEN Launch(Dispatched(notify, c, kind), c,
                                    InfoHolder(lease))
                        ELSE Dispatched(notify, c, kind)
    /\ isLeader' = [isLeader EXCEPT ![c] = ret[c].acquired]
    /\ currentLeader' = [currentLeader EXCEPT ![c] = InfoHolder(lease)]
    /\ pc' = [pc EXCEPT ![c] = "select"]
    /\ now' = [now EXCEPT ![c] = 0]
    /\ read' = [read EXCEPT ![c] = NoRead]
    /\ ret' = [ret EXCEPT ![c] = NoRet]
    /\ UNCHANGED <<clock, lease, isRunning, ctxDone, stopCh, stoppedCh,
                   gate, req, api, wrap, env, mu, th>>

\* ------------------------------------------------- run: leaving the loop
\* close(stoppedCh), the last deferred call of run; closing it again panics.
CloseStopped(c) ==
    /\ pc' = [pc EXCEPT ![c] = IF stoppedCh[c] THEN "panic" ELSE "exited"]
    /\ stoppedCh' = [stoppedCh EXCEPT ![c] = TRUE]

\* select takes ctx.Done() or stopCh; releaseLeadershipOnExit finds the
\* controller leading, clears isLeader and goes on to release the lease.
ExitLeading(c) ==
    /\ pc[c] = "select"
    /\ ctxDone[c] \/ stopCh[c]
    /\ isLeader[c]
    /\ isLeader' = [isLeader EXCEPT ![c] = FALSE]
    /\ pc' = [pc EXCEPT ![c] = "release"]
    /\ UNCHANGED <<clock, lease, now, read, ret, isRunning, currentLeader,
                   ctxDone, stopCh, stoppedCh, gate, pending, req, api, wrap,
                   metrics, env, notify, mu, th>>

\* The same with the controller not leading: nothing to release.
ExitFollowing(c) ==
    /\ pc[c] = "select"
    /\ ctxDone[c] \/ stopCh[c]
    /\ ~isLeader[c]
    /\ CloseStopped(c)
    /\ UNCHANGED <<clock, lease, now, read, ret, isRunning, isLeader,
                   currentLeader, ctxDone, stopCh, gate, pending, req,
                   api, wrap,
                   metrics, env, notify, mu, th>>

\* ReleaseLease: its Get.  An error, or a Lease held by somebody else or by
\* nobody, ends it; otherwise the cleared Lease is written next.
ReleaseGet(c) ==
    /\ pc[c] = "release"
    /\ \/ /\ lease.exists
          /\ read' = [read EXCEPT ![c] = ReadOk(lease)]
          /\ pc' = [pc EXCEPT ![c] =
                      IF lease.holder = NilId \/ lease.holder # c
                      THEN "released" ELSE "clear"]
       \/ /\ read' = [read EXCEPT ![c] = ReadErr("failed")]
          /\ pc' = [pc EXCEPT ![c] = "released"]
    /\ UNCHANGED <<clock, lease, now, ret, isRunning, isLeader, currentLeader,
                   ctxDone, stopCh, stoppedCh, gate, pending, req, api, wrap,
                   metrics, env, notify, mu, th>>

\* ReleaseLease whose Update replaces whatever Lease is stored.
ReleaseUpdate_Unconditional(c) ==
    /\ pc[c] = "clear"
    /\ \/ lease' = ReleasedLease(read[c].lease)
       \/ UNCHANGED lease
    /\ pc' = [pc EXCEPT ![c] = "released"]
    /\ UNCHANGED <<clock, now, read, ret, isRunning, isLeader, currentLeader,
                   ctxDone, stopCh, stoppedCh, gate, pending, req, api, wrap,
                   metrics, env, notify, mu, th>>

\* ReleaseLease: its Update, which may fail.
ReleaseUpdate(c) ==
    /\ pc[c] = "clear"
    /\ \/ Unwritten(lease, read[c].lease) /\ lease' = ReleasedLease(read[c].lease)
       \/ UNCHANGED lease
    /\ pc' = [pc EXCEPT ![c] = "released"]
    /\ UNCHANGED <<clock, now, read, ret, isRunning, isLeader, currentLeader,
                   ctxDone, stopCh, stoppedCh, gate, pending, req, api, wrap,
                   metrics, env, notify, mu, th>>

\* LeaderAwareServer.OnBecomeLeader / OnLoseLeadership.
OnBecomeLeader(g) == [g EXCEPT !.isLeader = TRUE, !.isActive = TRUE]
OnLoseLeadership(g) == [g EXCEPT !.isLeader = FALSE, !.isActive = FALSE]

\* releaseLeadershipOnExit returning without a call of OnStoppedLeading.
NotifyDone_NoCallback(c) ==
    /\ pc[c] = "released"
    /\ CloseStopped(c)
    /\ UNCHANGED <<clock, lease, now, read, ret, isRunning, isLeader,
                   currentLeader, ctxDone, stopCh, gate, pending, req,
                   api, wrap,
                   metrics, env, notify, mu, th>>

\* releaseLeadershipOnExit calls OnStoppedLeading itself: the callback built
\* by BuildGracefulShutdownCallbacks runs OnLoseLeadership in a goroutine and
\* waits for it, then run closes stoppedCh.
NotifyDone(c) ==
    /\ pc[c] = "released"
    /\ gate' = [gate EXCEPT ![c] = OnLoseLeadership(@)]
    /\ notify' = Dispatched(notify, c, "lose")
    /\ CloseStopped(c)
    /\ UNCHANGED <<clock, lease, now, read, ret, isRunning, isLeader,
                   currentLeader, ctxDone, stopCh, pending, req, api, wrap,
                   metrics, env, mu, th>>

\* The same, the wait timing out before the goroutine has run.
NotifyTimeout(c) ==
    /\ pc[c] = "released"
    /\ CanDispatch(c, "lose")
    /\ pending' = [pending EXCEPT ![c] = Dispatch(@, "lose")]
    /\ notify' = Dispatched(notify, c, "lose")
    /\ CloseStopped(c)
    /\ UNCHANGED <<clock, lease, now, read, ret, isRunning, isLeader,
                   currentLeader, ctxDone, stopCh, gate, req, api, wrap,
                   metrics, env, mu, th>>

\* ------------------------------------------------- callback goroutines
\* A goroutine launched for OnStartedLeading runs OnBecomeLeader.
RunBecomeLeader(c) ==
    /\ Alive(c)
    /\ pending[c].become > 0
    /\ pending' = [pending EXCEPT ![c].become = @ - 1]
    /\ gate' = [gate EXCEPT ![c] = OnBecomeLeader(@)]
    /\ UNCHANGED <<clock, lease, ctrlVars, req, api, wrap,
                   metrics, env, notify, mu, th>>

\* A goroutine launched for OnStoppedLeading runs OnLoseLeadership.
RunLoseLeadership(c) ==
    /\ Alive(c)
    /\ pending[c].lose > 0
    /\ pending' = [pending EXCEPT ![c].lose = @ - 1]
    /\ gate' = [gate EXCEPT ![c] = OnLoseLeadership(@)]
    /\ UNCHANGED <<clock, lease, ctrlVars, req, api, wrap,
                   metrics, env, notify, mu, th>>

\* A goroutine launched for OnNewLeader runs OnLeaderChange, which logs.
RunNewLeader(c) ==
    /\ Alive(c)
    /\ pending[c].newLeader > 0
    /\ pending' = [pending EXCEPT ![c].newLeader = @ - 1]
    /\ notify' = Receive(notify, c, currentLeader[c])
    /\ UNCHANGED <<clock, lease, ctrlVars, gate, req, api, wrap,
                   metrics, env, mu, th>>

\* A goroutine launched for a callback enters it, and the callback never
\* returns.
Hang(c, kind) ==
    /\ Alive(c)
    /\ pending[c][kind] > 0
    /\ pending' = [pending EXCEPT ![c][kind] = @ - 1,
                                  ![c].stuck = @ \cup {kind}]
    /\ notify' = IF kind = "newLeader"
                 THEN Receive(notify, c, currentLeader[c])
                 ELSE notify
    /\ UNCHANGED <<clock, lease, ctrlVars, gate, req, api, wrap,
                   metrics, env, mu, th>>

\* ------------------------------------- LeaderAwareServer.Seal / Unseal
Ops == {"Seal", "Unseal"}
\* What the wrapped Server returns: a response, or an error.
ServiceResults == {"response", "error"}

\* las.electionController.GetCurrentLeader(): a controller that is never
\* started stays as constructed, with no leader known.
GateCurrentLeader(i) ==
    IF gate[i].electionController = "started" THEN GetCurrentLeader(i) ELSE ""

\* createNotLeaderError never naming a leader.
createNotLeaderError_NoRedirect(leader) == "Unavailable: No leader elected"

\* createNotLeaderError.
createNotLeaderError(leader) ==
    IF leader = "" THEN "Unavailable: No leader elected"
    ELSE "Unavailable: Not the leader - current leader is " \o leader

\* Seal / Unseal asking checkLeadership again before it forwards.
Gated_ChecksAgain(i, admitted, inner) ==
    IF ~checkLeadership(i)
    THEN [invoked |-> FALSE, inner |-> "",
          result |-> createNotLeaderError(GateCurrentLeader(i))]
    ELSE [invoked |-> TRUE, inner |-> inner, result |-> inner]

\* Seal / Unseal once checkLeadership has answered `admitted`; inner is what
\* the wrapped Server returns if it is called.
Gated(i, admitted, inner) ==
    IF ~admitted
    THEN [invoked |-> FALSE, inner |-> "",
          result |-> createNotLeaderError(GateCurrentLeader(i))]
    ELSE [invoked |-> TRUE, inner |-> inner, result |-> inner]

\* A Seal or Unseal request arrives at instance i: checkLeadership.
Check(i, op) ==
    /\ Alive(i)
    /\ req.stage = "idle"
    /\ req' = [NoRequest EXCEPT !.stage = "checked", !.inst = i, !.op = op,
                                !.admitted = checkLeadership(i)]
    /\ UNCHANGED <<clock, lease, ctrlVars, gate, pending, api, wrap,
                   metrics, env, notify, mu, th>>

\* The request is forwarded to the wrapped Server, or rejected.
Serve(inner) ==
    /\ req.stage = "checked"
    /\ LET out == Gated(req.inst, req.admitted, inner)
       IN  req' = [req EXCEPT !.stage = "done", !.invoked = out.invoked,
                              !.inner = out.inner, !.result = out.result]
    /\ UNCHANGED <<clock, lease, ctrlVars, gate, pending, api, wrap,
                   metrics, env, notify, mu, th>>

\* The caller has its answer.
Return ==
    /\ req.stage = "done"
    /\ req' = NoRequest
    /\ UNCHANGED <<clock, lease, ctrlVars, gate, pending, api, wrap,
                   metrics, env, notify, mu, th>>

\* ------------------------------------------------------------------ Next
\* One iteration of the election loop of controller c, step by step.
Iterate(c) ==
    \/ BeginAcquire(c)
    \/ GetLease(c)
    \/ CreateLease(c)
    \/ UpdateLease(c)
    \/ NotEligible(c)
    \/ AcquireFailed(c)
    \/ LeaseInfoFailed(c)
    \/ updateLeadershipState(c)

\* The callback goroutines of instance c.
Callbacks(c) ==
    \/ RunBecomeLeader(c)
    \/ RunLoseLeadership(c)
    \/ RunNewLeader(c)

\* The loop of controller c ends and gives the lease up.
Shutdown(c) ==
    \/ Stop(c)
    \/ Cancel(c)
    \/ ExitLeading(c)
    \/ ExitFollowing(c)
    \/ ReleaseGet(c)
    \/ ReleaseUpdate(c)
    \/ NotifyDone(c)
    \/ NotifyTimeout(c)

\* Gated requests to instance i.
Requests(i) ==
    \/ \E op \in Ops : Check(i, op)
    \/ \E inner \in ServiceResults : Serve(inner)
    \/ Return

\* A client of the LeaseManager other than the election loop: AcquireLease
\* returns to it, and it calls ReleaseLease.
AcquireReturns(c) ==
    /\ pc[c] = "result"
    /\ pc' = [pc EXCEPT ![c] = "select"]
    /\ now' = [now EXCEPT ![c] = 0]
    /\ read' = [read EXCEPT ![c] = NoRead]
    /\ ret' = [ret EXCEPT ![c] = NoRet]
    /\ UNCHANGED <<clock, lease, isRunning, isLeader, currentLeader, ctxDone,
                   stopCh, stoppedCh, gate, pending, req, api, wrap,
                   metrics, env, notify, mu, th>>

CallReleaseLease(c) ==
    /\ pc[c] = "select"
    /\ pc' = [pc EXCEPT ![c] = "release"]
    /\ UNCHANGED <<clock, lease, now, read, ret, isRunning, isLeader,
                   currentLeader, ctxDone, stopCh, stoppedCh, gate, pending, req,
                   api, wrap,
                   metrics, env, notify, mu, th>>

ReleaseReturns(c) ==
    /\ pc[c] = "released"
    /\ pc' = [pc EXCEPT ![c] = "select"]
    /\ read' = [read EXCEPT ![c] = NoRead]
    /\ UNCHANGED <<clock, lease, now, ret, isRunning, isLeader, currentLeader,
                   ctxDone, stopCh, stoppedCh, gate, pending, req, api, wrap,
                   metrics, env, notify, mu, th>>

\* The calls of the LeaseManager of c, step by step.
LeaseCalls(c) ==
    \/ BeginAcquire(c)
    \/ GetLease(c)
    \/ CreateLease(c)
    \/ UpdateLease(c)
    \/ NotEligible(c)
    \/ AcquireReturns(c)
    \/ CallReleaseLease(c)
    \/ ReleaseGet(c)
    \/ ReleaseUpdate(c)
    \/ ReleaseReturns(c)

\* The instances elect a leader among themselves.
Next ==
    \/ Tick
    \/ \E c \in Ids : Start(c)
    \/ \E c \in Ids : Iterate(c)
    \/ \E c \in Ids : Callbacks(c)

Spec == Init /\ [][Next]_vars

\* The lease protocol alone: the LeaseManagers of the instances, called
\* concurrently.
NextLease ==
    \/ Tick
    \/ \E c \in Ids : Start(c)
    \/ \E c \in Ids : LeaseCalls(c)

SpecLease == Init /\ [][NextLease]_vars

\* One instance from Start to the end of its loop, serving requests.
Solo == "A"

\* Alone, it never finds the Lease held by another instance.
NextGate ==
    \/ Tick
    \/ Start(Solo)
    \/ BeginAcquire(Solo)
    \/ GetLease(Solo)
    \/ CreateLease(Solo)
    \/ UpdateLease(Solo)
    \/ AcquireFailed(Solo)
    \/ LeaseInfoFailed(Solo)
    \/ updateLeadershipState(Solo)
    \/ Callbacks(Solo)
    \/ Shutdown(Solo)
    \/ Requests(Solo)

SpecGate == Init /\ [][NextGate]_vars

\* The instances elect a leader while instance Solo serves requests; the
\* clock stands still.
NextServe ==
    \/ \E c \in Ids : Start(c)
    \/ \E c \in Ids : Iterate(c)
    \/ \E c \in Ids : Callbacks(c)
    \/ Requests(Solo)

\* ... assembled as main does,
SpecMain == Init /\ [][NextServe]_vars
\* ... and each around one controller.
SpecWired == InitWired /\ [][NextServe]_vars

\* One controller whose Start and Stop are called by the goroutines of
\* Callers, from construction on.
Lifecycle(c) ==
    \/ \E k \in Callers : CallStart(k, c)
    \/ \E k \in Callers : CallStop(k, c)
    \/ \E k \in Callers : StopClose(k)
    \/ \E k \in Callers : StopWait(k)

NextLife ==
    \/ Tick
    \/ Lifecycle(Solo)
    \/ Cancel(Solo)
    \/ BeginAcquire(Solo)
    \/ GetLease(Solo)
    \/ CreateLease(Solo)
    \/ UpdateLease(Solo)
    \/ AcquireFailed(Solo)
    \/ LeaseInfoFailed(Solo)
    \/ updateLeadershipState(Solo)
    \/ Callbacks(Solo)
    \/ ExitLeading(Solo)
    \/ ExitFollowing(Solo)
    \/ ReleaseGet(Solo)
    \/ ReleaseUpdate(Solo)
    \/ NotifyDone(Solo)
    \/ NotifyTimeout(Solo)

SpecLife == Init /\ [][NextLife]_vars

\* ------------------------------------------------------- construction
\* The identities a LeaseConfig may carry: those of the instances, and the
\* empty one of DefaultLeaseConfig.
Identities == Ids \cup {""}

\* NewLeaseManager accepting any identity.
NewLeaseManager_AnyIdentity(id, envOk) ==
    IF ~envOk THEN "failed to create in-cluster config"
    ELSE "nil"

\* The error of NewLeaseManager(config), "nil" when it returns a manager;
\* envOk: rest.InClusterConfig and kubernetes.NewForConfig succeed.
NewLeaseManager(id, envOk) ==
    IF id = "" THEN "lease identity cannot be empty"
    ELSE IF ~envOk THEN "failed to create in-cluster config"
    ELSE "nil"

\* Nothing is constructed yet; every identity may get its controller.
InitUnbuilt ==
    /\ clock = 0
    /\ lease = NoLease
    /\ pc = [c \in Identities |-> "unbuilt"]
    /\ now = [c \in Identities |-> 0]
    /\ read = [c \in Identities |-> NoRead]
    /\ ret = [c \in Identities |-> NoRet]
    /\ isRunning = [c \in Identities |-> FALSE]
    /\ isLeader = [c \in Identities |-> FALSE]
    /\ currentLeader = [c \in Identities |-> ""]
    /\ ctxDone = [c \in Identities |-> FALSE]
    /\ stopCh = [c \in Identities |-> FALSE]
    /\ stoppedCh = [c \in Identities |-> FALSE]
    /\ gate = [c \in Identities |-> NewLeaderAwareServer("first")]
    /\ pending = [c \in Identities |-> NoCallbacks]
    /\ req = NoRequest
    /\ api = [k \in Callers |-> NoCall]
    /\ wrap = NoWrap
    /\ metrics = Followed({})
    /\ env = NoEnv
    /\ notify = Notified({})
    /\ mu = NoLocks
    /\ th = NoThreads

\* NewElectionController(config, callbacks, logger) called by goroutine k
\* with config.Identity = id: the error of NewLeaseManager, wrapped, or the
\* controller.
NewElectionController(k, id, envOk) ==
    /\ api[k].stage \in {"idle", "returned"}
    /\ pc[id] = "unbuilt"
    /\ LET err == NewLeaseManager(id, envOk)
       IN  IF err # "nil"
           THEN /\ api' = [api EXCEPT ![k] =
                    Called("NewElectionController", id,
                           "failed to create lease manager: " \o err)]
                /\ UNCHANGED pc
           ELSE /\ api' = [api EXCEPT ![k] =
                    Called("NewElectionController", id, "nil")]
                /\ pc' = [pc EXCEPT ![id] = "new"]
    /\ UNCHANGED <<clock, lease, now, read, ret, isRunning, isLeader,
                   currentLeader, ctxDone, stopCh, stoppedCh, gate, pending,
                   req, wrap,
                   metrics, env, notify, mu, th>>

\* Controllers are constructed and started, and elect a leader; the clock
\* stands still.
NextBuild ==
    \/ \E k \in Callers, id \in Identities, envOk \in BOOLEAN :
           NewElectionController(k, id, envOk)
    \/ \E c \in Identities : Start(c)
    \/ \E c \in Identities : Iterate(c)
    \/ \E c \in Identities : Callbacks(c)

SpecBuild == InitUnbuilt /\ [][NextBuild]_vars

\* ------------------------------- BuildGracefulShutdownCallbacks
\* gracefulShutdownTimeout, in seconds (scaled down from main's 5 s).
GracefulShutdownTimeout == 1

WrapKinds == {"OnStartedLeading", "OnStoppedLeading"}

\* The wait of a callback that ends only when the timeout has elapsed.
TimeoutCtxDone_TimerOnly(w) == clock >= w.start + GracefulShutdownTimeout

\* The Done channel the callback selects on beside `done`:
\* OnStartedLeading derives its timeout context from the context it is
\* handed, OnStoppedLeading from context.Background().
TimeoutCtxDone(w) ==
    \/ clock >= w.start + GracefulShutdownTimeout
    \/ w.kind = "OnStartedLeading" /\ w.ctxDone

\* The callback calling fn itself, and again in its goroutine.
Invoked_CallsTwice(kind, fn, cancelled) ==
    [kind |-> kind, fn |-> fn, ctxDone |-> cancelled, start |-> clock,
     stage |-> IF fn THEN "select" ELSE "returned",
     how |-> IF fn THEN "" ELSE "nil",
     fnState |-> IF fn THEN "launched" ELSE "none",
     calls |-> IF fn THEN 1 ELSE 0]

\* A callback is called: with fn nil it returns at once; otherwise it
\* launches a goroutine for fn and waits in its select.
Invoked(kind, fn, cancelled) ==
    [kind |-> kind, fn |-> fn, ctxDone |-> cancelled, start |-> clock,
     stage |-> IF fn THEN "select" ELSE "returned",
     how |-> IF fn THEN "" ELSE "nil",
     fnState |-> IF fn THEN "launched" ELSE "none",
     calls |-> 0]

\* The controller calls OnStartedLeading(ctx) or OnStoppedLeading(), once
\* the goroutine of an earlier call is through.
Invoke(kind, fn, cancelled) ==
    /\ wrap.stage \in {"idle", "returned"}
    /\ wrap.fnState \in {"none", "done"}
    /\ wrap' = Invoked(kind, fn, cancelled)
    /\ UNCHANGED <<clock, lease, ctrlVars, gate, pending, req, api,
                   metrics, env, notify, mu, th>>

\* The context handed to OnStartedLeading is cancelled.
CancelCtx ==
    /\ wrap.kind = "OnStartedLeading"
    /\ ~wrap.ctxDone
    /\ wrap' = [wrap EXCEPT !.ctxDone = TRUE]
    /\ UNCHANGED <<clock, lease, ctrlVars, gate, pending, req, api,
                   metrics, env, notify, mu, th>>

\* The goroutine enters fn.
FnStart ==
    /\ wrap.fnState = "launched"
    /\ wrap' = [wrap EXCEPT !.fnState = "running", !.calls = @ + 1]
    /\ UNCHANGED <<clock, lease, ctrlVars, gate, pending, req, api,
                   metrics, env, notify, mu, th>>

\* fn returns and the goroutine closes `done`.
FnComplete ==
    /\ wrap.fnState = "running"
    /\ wrap' = [wrap EXCEPT !.fnState = "done"]
    /\ UNCHANGED <<clock, lease, ctrlVars, gate, pending, req, api,
                   metrics, env, notify, mu, th>>

\* select: case <-done.
ReturnDone ==
    /\ wrap.stage = "select"
    /\ wrap.fnState = "done"
    /\ wrap' = [wrap EXCEPT !.stage = "returned", !.how = "done"]
    /\ UNCHANGED <<clock, lease, ctrlVars, gate, pending, req, api,
                   metrics, env, notify, mu, th>>

\* select: case <-timeoutCtx.Done().
ReturnTimeout ==
    /\ wrap.stage = "select"
    /\ TimeoutCtxDone(wrap)
    /\ wrap' = [wrap EXCEPT !.stage = "returned", !.how = "timeout"]
    /\ UNCHANGED <<clock, lease, ctrlVars, gate, pending, req, api,
                   metrics, env, notify, mu, th>>

\* The callbacks of BuildGracefulShutdownCallbacks, called one call after
\* the other.
NextWrapper ==
    \/ Tick
    \/ \E kind \in WrapKinds, fn \in BOOLEAN, cancelled \in BOOLEAN :
           Invoke(kind, fn, cancelled)
    \/ CancelCtx
    \/ FnStart
    \/ FnComplete
    \/ ReturnDone
    \/ ReturnTimeout

SpecWrapper == Init /\ [][NextWrapper]_vars

\* Failover: the instance Holder may die at any moment, or just stop
\* renewing; the instance Standby keeps running its loop against a backend
\* that is available to it, so that none of its calls fails but a write the
\* API server has to reject.
Holder == "A"
Standby == "B"

\* The process of instance c dies.
Crash(c) ==
    /\ Alive(c)
    /\ pc[c] # "new"
    /\ pc' = [pc EXCEPT ![c] = "panic"]
    /\ UNCHANGED <<clock, lease, now, read, ret, isRunning, isLeader,
                   currentLeader, ctxDone, stopCh, stoppedCh, gate, pending,
                   req, api, wrap,
                   metrics, env, notify, mu, th>>

\* One iteration of the loop of c, step by step, with the backend available.
AvailableIterate(c) ==
    \/ BeginAcquire(c)
    \/ GetLease(c) /\ read'[c].status # "failed"
    \/ CreateLease(c)
          /\ ret'[c] = AcquireOutcome(c, read[c], now[c], lease, TRUE)[1]
    \/ UpdateLease(c)
          /\ ret'[c] = AcquireOutcome(c, read[c], now[c], lease, TRUE)[1]
    \/ NotEligible(c)
    \/ AcquireFailed(c)
    \/ updateLeadershipState(c)

NextFailover ==
    \/ Tick
    \/ \E c \in Ids : Start(c)
    \/ Iterate(Holder)
    \/ Crash(Holder)
    \/ AvailableIterate(Standby)
    \/ \E c \in Ids : Callbacks(c)

\* Time advances, and the Standby is started, its ticker fires and its
\* goroutines are scheduled.
FairFailover ==
    /\ WF_vars(Tick)
    /\ WF_vars(Start(Standby))
    /\ WF_vars(AvailableIterate(Standby))
    /\ WF_vars(Callbacks(Standby))

SpecFailover == Init /\ [][NextFailover]_vars /\ FairFailover

\* One instance whose callbacks may hang: a goroutine launched for a
\* callback runs the callback, or enters it for good.
CallbackKinds == {"become", "lose", "newLeader"}

\* The steps of the goroutine run of c inside its loop.
LoopIterates(c) ==
    \/ BeginAcquire(c)
    \/ GetLease(c)
    \/ CreateLease(c)
    \/ UpdateLease(c)
    \/ AcquireFailed(c)
    \/ LeaseInfoFailed(c)
    \/ updateLeadershipState(c)

\* select takes ctx.Done() or stopCh.
LoopLeaves(c) == ExitLeading(c) \/ ExitFollowing(c)

\* The goroutines launched for the callbacks of c are scheduled.
CallbacksBegin(c) ==
    \/ Callbacks(c)
    \/ \E kind \in CallbackKinds : Hang(c, kind)

\* The clock stands still.
NextHang ==
    \/ Start(Solo)
    \/ Stop(Solo)
    \/ Cancel(Solo)
    \/ LoopIterates(Solo)
    \/ LoopLeaves(Solo)
    \/ ReleaseGet(Solo)
    \/ ReleaseUpdate(Solo)
    \/ NotifyDone(Solo)
    \/ NotifyTimeout(Solo)
    \/ CallbacksBegin(Solo)

\* The ticker fires and the loop runs; a select with several ready cases
\* takes each of them sooner or later; goroutines that were launched are
\* scheduled.  Nothing says that a callback returns.
FairHang ==
    /\ WF_vars(LoopIterates(Solo))
    /\ SF_vars(LoopLeaves(Solo))
    /\ WF_vars(CallbacksBegin(Solo))

SpecHang == Init /\ [][NextHang]_vars /\ FairHang

\* -------------------------------------------------------- cancellation
\* One iteration of the loop of c, step by step; tryAcquireLease hands the
\* context of the loop to AcquireLease and GetLeaseInfo, and a backend call
\* made with a cancelled context fails.
IterateWithContext(c) ==
    \/ BeginAcquire(c)
    \/ GetLease(c) /\ (ctxDone[c] => read'[c].status = "failed")
    \/ CreateLease(c) /\ (ctxDone[c] => ret'[c].err # "nil")
    \/ UpdateLease(c) /\ (ctxDone[c] => ret'[c].err # "nil")
    \/ AcquireFailed(c)
    \/ LeaseInfoFailed(c)
    \/ updateLeadershipState(c) /\ ~ctxDone[c]

\* One instance, started once, whose context is cancelled at some moment.
NextCancel ==
    \/ Tick
    \/ Start(Solo)
    \/ Cancel(Solo)
    \/ IterateWithContext(Solo)
    \/ LoopLeaves(Solo)
    \/ ReleaseGet(Solo)
    \/ ReleaseUpdate(Solo)
    \/ NotifyDone(Solo)
    \/ NotifyTimeout(Solo)
    \/ Callbacks(Solo)

\* The ticker fires and the loop runs; a select with several ready cases
\* takes each of them sooner or later; goroutines that were launched are
\* scheduled.
FairCancel ==
    /\ WF_vars(IterateWithContext(Solo))
    /\ SF_vars(LoopLeaves(Solo))
    /\ WF_vars(Callbacks(Solo))

SpecCancel == Init /\ [][NextCancel]_vars /\ FairCancel

\* ------------------------------------------------------------- metrics
\* One instance whose metrics are followed, from Start to the end of its
\* loop.
InitMetered ==
    /\ clock = 0
    /\ lease = NoLease
    /\ pc = [c \in Ids |-> "new"]
    /\ now = [c \in Ids |-> 0]
    /\ read = [c \in Ids |-> NoRead]
    /\ ret = [c \in Ids |-> NoRet]
    /\ isRunning = [c \in Ids |-> FALSE]
    /\ isLeader = [c \in Ids |-> FALSE]
    /\ currentLeader = [c \in Ids |-> ""]
    /\ ctxDone = [c \in Ids |-> FALSE]
    /\ stopCh = [c \in Ids |-> FALSE]
    /\ stoppedCh = [c \in Ids |-> FALSE]
    /\ gate = [c \in Ids |-> NewLeaderAwareServer("started")]
    /\ pending = [c \in Ids |-> NoCallbacks]
    /\ req = NoRequest
    /\ api = [k \in Callers |-> NoCall]
    /\ wrap = NoWrap
    /\ metrics = Followed({Solo})
    /\ env = NoEnv
    /\ notify = Notified({})
    /\ mu = NoLocks
    /\ th = NoThreads

NextMetrics ==
    \/ Tick
    \/ Start(Solo)
    \/ LoopIterates(Solo)
    \/ Callbacks(Solo)
    \/ Shutdown(Solo)

SpecMetrics == InitMetered /\ [][NextMetrics]_vars

\* The same instance with its callbacks followed instead of its metrics.
InitFollowed ==
    /\ clock = 0
    /\ lease = NoLease
    /\ pc = [c \in Ids |-> "new"]
    /\ now = [c \in Ids |-> 0]
    /\ read = [c \in Ids |-> NoRead]
    /\ ret = [c \in Ids |-> NoRet]
    /\ isRunning = [c \in Ids |-> FALSE]
    /\ isLeader = [c \in Ids |-> FALSE]
    /\ currentLeader = [c \in Ids |-> ""]
    /\ ctxDone = [c \in Ids |-> FALSE]
    /\ stopCh = [c \in Ids |-> FALSE]
    /\ stoppedCh = [c \in Ids |-> FALSE]
    /\ gate = [c \in Ids |-> NewLeaderAwareServer("started")]
    /\ pending = [c \in Ids |-> NoCallbacks]
    /\ req = NoRequest
    /\ api = [k \in Callers |-> NoCall]
    /\ wrap = NoWrap
    /\ metrics = Followed({})
    /\ env = NoEnv
    /\ notify = Notified({Solo})
    /\ mu = NoLocks
    /\ th = NoThreads

\* Another client of the Lease competing for it, the backend available to
\* it: its calls of AcquireLease, step by step.
Competes(c) ==
    \/ BeginAcquire(c)
    \/ GetLease(c) /\ read'[c].status # "failed"
    \/ CreateLease(c)
          /\ ret'[c] = AcquireOutcome(c, read[c], now[c], lease, TRUE)[1]
    \/ UpdateLease(c)
          /\ ret'[c] = AcquireOutcome(c, read[c], now[c], lease, TRUE)[1]
    \/ NotEligible(c)
    \/ AcquireReturns(c)

\* The instance from Start to the end of its loop, with the Standby taking
\* the Lease whenever it can.
NextOrder ==
    \/ Tick
    \/ \E c \in Ids : Start(c)
    \/ Iterate(Solo)
    \/ Callbacks(Solo)
    \/ Shutdown(Solo)
    \/ Competes(Standby)

SpecOrder == InitFollowed /\ [][NextOrder]_vars

\* ------------------------------------------------------ DefaultIdentity
\* The variables DefaultIdentity reads, the values they are set to, and the
\* host names the kernel reports: sethostname(2) accepts the empty name.
EnvNames == {"LEADER_ELECTION_IDENTITY", "POD_NAME"}
EnvValues == {"", "A", "B"}
HostNames == {"", "vm"}

\* DefaultIdentity(): LEADER_ELECTION_IDENTITY, else POD_NAME, else
\* os.Hostname(), else "unknown".
DefaultIdentity(e) ==
    IF Getenv(e.LEADER_ELECTION_IDENTITY) # ""
    THEN Getenv(e.LEADER_ELECTION_IDENTITY)
    ELSE IF Getenv(e.POD_NAME) # "" THEN Getenv(e.POD_NAME)
    ELSE IF e.hostnameErr THEN "unknown"
    ELSE e.hostname

\* A process on a host of any name, or on one where os.Hostname fails, with
\* neither variable set.
InitEnv ==
    /\ clock = 0
    /\ lease = NoLease
    /\ pc = [c \in Ids |-> "new"]
    /\ now = [c \in Ids |-> 0]
    /\ read = [c \in Ids |-> NoRead]
    /\ ret = [c \in Ids |-> NoRet]
    /\ isRunning = [c \in Ids |-> FALSE]
    /\ isLeader = [c \in Ids |-> FALSE]
    /\ currentLeader = [c \in Ids |-> ""]
    /\ ctxDone = [c \in Ids |-> FALSE]
    /\ stopCh = [c \in Ids |-> FALSE]
    /\ stoppedCh = [c \in Ids |-> FALSE]
    /\ gate = [c \in Ids |-> NewLeaderAwareServer("first")]
    /\ pending = [c \in Ids |-> NoCallbacks]
    /\ req = NoRequest
    /\ api = [k \in Callers |-> NoCall]
    /\ wrap = NoWrap
    /\ metrics = Followed({})
    /\ \E h \in HostNames, failed \in BOOLEAN :
          env = [NoEnv EXCEPT !.hostname = IF failed THEN "" ELSE h,
                              !.hostnameErr = failed]
    /\ notify = Notified({})
    /\ mu = NoLocks
    /\ th = NoThreads

\* os.Setenv(name, v) / os.Unsetenv(name).
Setenv(name, v) ==
    /\ env' = [env EXCEPT ![name] = v]
    /\ UNCHANGED <<clock, lease, ctrlVars, gate, pending, req, api, wrap,
                   metrics, notify, mu, th>>

Unsetenv(name) ==
    /\ env' = [env EXCEPT ![name] = Unset]
    /\ UNCHANGED <<clock, lease, ctrlVars, gate, pending, req, api, wrap,
                   metrics, notify, mu, th>>

\* createLeaderElectionConfig: config.Identity = DefaultIdentity().
CallDefaultIdentity ==
    /\ env' = [env EXCEPT !.returned = DefaultIdentity(env)]
    /\ UNCHANGED <<clock, lease, ctrlVars, gate, pending, req, api, wrap,
                   metrics, notify, mu, th>>

NextIdentity ==
    \/ \E name \in EnvNames, v \in EnvValues : Setenv(name, v)
    \/ \E name \in EnvNames : Unsetenv(name)
    \/ CallDefaultIdentity

SpecIdentity == InitEnv /\ [][NextIdentity]_vars

\* ------------------------------------------- LeaderAwareServer.Stop
\* LeaderAwareServer.Stop called by goroutine k: the flags of the gate are
\* cleared under las.mu, then Stop of las.electionController is called,
\* which reads and clears isRunning and returns at once if it was not set.
\* A controller that was never started is not running.
GateStop(k, i) ==
    /\ Alive(i)
    /\ api[k].stage \in {"idle", "returned"}
    /\ gate' = [gate EXCEPT ![i].isActive = FALSE, ![i].isLeader = FALSE]
    /\ IF gate[i].electionController = "started"
       THEN /\ isRunning' = [isRunning EXCEPT ![i] = FALSE]
            /\ api' = [api EXCEPT ![k] =
                          IF isRunning[i]
                          THEN [op |-> "LeaderAwareServer.Stop", on |-> i,
                                stage |-> "close", err |-> ""]
                          ELSE Called("LeaderAwareServer.Stop", i, "nil")]
       ELSE /\ api' = [api EXCEPT ![k] =
                          Called("LeaderAwareServer.Stop", i, "nil")]
            /\ UNCHANGED isRunning
    /\ UNCHANGED <<clock, lease, pc, now, read, ret, isLeader, currentLeader,
                   ctxDone, stopCh, stoppedCh, pending, req, wrap,
                   metrics, env, notify, mu, th>>

\* An instance assembled around one controller and started once, whose
\* LeaderAwareServer.Stop is called by one goroutine at some moment after
\* that; the clock stands still.
Stopper == "g1"

NextGateStop ==
    \/ Start(Solo) /\ pc[Solo] = "new"
    \/ LoopIterates(Solo)
    \/ LoopLeaves(Solo)
    \/ ReleaseGet(Solo)
    \/ ReleaseUpdate(Solo)
    \/ NotifyDone(Solo)
    \/ NotifyTimeout(Solo)
    \/ Callbacks(Solo)
    \/ GateStop(Stopper, Solo) /\ pc[Solo] # "new"
    \/ StopClose(Stopper)
    \/ StopWait(Stopper)

SpecGateStop == InitWired /\ [][NextGateStop]_vars

\* --------------------------------------------------------- OnNewLeader
\* A goroutine launched for OnNewLeader begins to run.
StartNewLeader(c) ==
    /\ Alive(c)
    /\ c \in DOMAIN notify
    /\ pending[c].newLeader > 0
    /\ notify[c].started = <<>>
    /\ pending' = [pending EXCEPT ![c].newLeader = @ - 1]
    /\ notify' = [notify EXCEPT
                     ![c].launched = Tail(@),
                     ![c].started = Append(@, Head(notify[c].launched))]
    /\ UNCHANGED <<clock, lease, ctrlVars, gate, req, api, wrap,
                   metrics, env, mu, th>>

\* It evaluates ec.currentLeader, which it reads without ec.mu while the
\* loop may be writing it, and calls OnNewLeader with what it finds: the
\* value of before or of after any write it races with.
CallNewLeader(c) ==
    /\ Alive(c)
    /\ c \in DOMAIN notify
    /\ notify[c].started # <<>>
    /\ notify' = [notify EXCEPT
                     ![c].started = Tail(@),
                     ![c].read = Head(notify[c].started),
                     ![c].got = currentLeader[c]]
    /\ UNCHANGED <<clock, lease, ctrlVars, gate, pending, req, api, wrap,
                   metrics, env, mu, th>>

\* Two instances as main assembles them; the notifications of the Standby
\* are followed.
InitNotified ==
    /\ clock = 0
    /\ lease = NoLease
    /\ pc = [c \in Ids |-> "new"]
    /\ now = [c \in Ids |-> 0]
    /\ read = [c \in Ids |-> NoRead]
    /\ ret = [c \in Ids |-> NoRet]
    /\ isRunning = [c \in Ids |-> FALSE]
    /\ isLeader = [c \in Ids |-> FALSE]
    /\ currentLeader = [c \in Ids |-> ""]
    /\ ctxDone = [c \in Ids |-> FALSE]
    /\ stopCh = [c \in Ids |-> FALSE]
    /\ stoppedCh = [c \in Ids |-> FALSE]
    /\ gate = [c \in Ids |-> NewLeaderAwareServer("first")]
    /\ pending = [c \in Ids |-> NoCallbacks]
    /\ req = NoRequest
    /\ api = [k \in Callers |-> NoCall]
    /\ wrap = NoWrap
    /\ metrics = Followed({})
    /\ env = NoEnv
    /\ notify = Notified({Standby})
    /\ mu = NoLocks
    /\ th = NoThreads

\* The instances elect a leader among themselves, the backend being
\* available to the Holder; each goroutine launched for OnNewLeader by the
\* Standby runs in two steps.
NextNotify ==
    \/ Tick
    \/ \E c \in Ids : Start(c)
    \/ AvailableIterate(Holder)
    \/ Iterate(Standby)
    \/ \E c \in Ids : RunBecomeLeader(c)
    \/ \E c \in Ids : RunLoseLeadership(c)
    \/ RunNewLeader(Holder)
    \/ StartNewLeader(Standby)
    \/ CallNewLeader(Standby)

SpecNotify == InitNotified /\ [][NextNotify]_vars

\* ------------------------------------------------------- the mutexes
\* The goroutines of one instance as the mutex and channel operations they
\* perform, in program order.  A position names the function and the line
\* of the statement to execute next; a row tells what that statement does
\* (op), to which mutex, channel or goroutine (m), and where control may go
\* from it (next).  Conditions on the election state are taken either way.
Row(op, m, next) == [op |-> op, m |-> m, next |-> next]

\* ElectionController.Start, called by LeaderAwareServer.Start.
StartSteps ==
    "idle" :> Row("call", "", {"ec.Start:64"}) @@
    "ec.Start:64" :> Row("Lock", "ec", {"ec.Start:77"}) @@
    "ec.Start:77" :> Row("go", "run", {"ec.Start:78"}) @@
    "ec.Start:78" :> Row("Unlock", "ec", {"las.Stop:56"})

\* LeaderAwareServer.Stop and the ElectionController.Stop it calls.
StopSteps ==
    "las.Stop:56" :> Row("Lock", "las", {"las.Stop:59"}) @@
    "las.Stop:59" :> Row("Unlock", "las", {"ec.Stop:83"}) @@
    "ec.Stop:83" :> Row("Lock", "ec", {"ec.Stop:86"}) @@
    "ec.Stop:86" :> Row("Unlock", "ec", {"ec.Stop:93"}) @@
    "ec.Stop:93" :> Row("close", "stopCh", {"ec.Stop:94"}) @@
    "ec.Stop:94" :> Row("receive", "stoppedCh", {"stopped"})

\* tryAcquireLease: AcquireLease; on an error the error is counted under
\* ec.mu and, if ec.isLeader, stepDown is called; otherwise GetLeaseInfo
\* and, unless that fails, updateLeadershipState.
tryAcquireLeaseSteps ==
    "tryAcquireLease:153" :>
        Row("backend", "AcquireLease",
            {"tryAcquireLease:156", "tryAcquireLease:176"}) @@
    "tryAcquireLease:156" :> Row("Lock", "ec", {"tryAcquireLease:162"}) @@
    "tryAcquireLease:162" :>
        Row("Unlock", "ec", {"stepDown:251", "run:138"}) @@
    "tryAcquireLease:176" :>
        Row("backend", "GetLeaseInfo",
            {"run:138", "updateLeadershipState:189"})

\* updateLeadershipState calling OnStartedLeading itself, under ec.mu.
updateLeadershipStateSteps_CallsBackUnderLock ==
    "updateLeadershipState:189" :>
        Row("Lock", "ec", {"updateLeadershipState:222",
                           "updateLeadershipState:233",
                           "updateLeadershipState:247"}) @@
    "updateLeadershipState:222" :>
        Row("Lock", "las", {"updateLeadershipState:224"}) @@
    "updateLeadershipState:224" :>
        Row("Unlock", "las", {"updateLeadershipState:247"}) @@
    "updateLeadershipState:233" :>
        Row("go", "OnLoseLeadership", {"updateLeadershipState:247"}) @@
    "updateLeadershipState:247" :> Row("Unlock", "ec", {"run:138"})

\* updateLeadershipState, holding ec.mu until it returns: it launches a
\* goroutine for OnStartedLeading, for OnStoppedLeading, or none.
updateLeadershipStateSteps ==
    "updateLeadershipState:189" :>
        Row("Lock", "ec", {"updateLeadershipState:222",
                           "updateLeadershipState:233",
                           "updateLeadershipState:247"}) @@
    "updateLeadershipState:222" :>
        Row("go", "OnBecomeLeader", {"updateLeadershipState:247"}) @@
    "updateLeadershipState:233" :>
        Row("go", "OnLoseLeadership", {"updateLeadershipState:247"}) @@
    "updateLeadershipState:247" :> Row("Unlock", "ec", {"run:138"})

\* stepDown: isLeader is cleared under ec.mu; then, if it was set, a
\* goroutine is launched for OnStoppedLeading.
stepDownSteps ==
    "stepDown:251" :> Row("Lock", "ec", {"stepDown:254"}) @@
    "stepDown:254" :> Row("Unlock", "ec", {"stepDown:261", "run:138"}) @@
    "stepDown:261" :> Row("go", "OnLoseLeadership", {"run:138"})

\* releaseLeadershipOnExit keeping ec.mu until it returns.
runSteps_ReleasesUnderLock ==
    "run:138" :>
        Row("select", "stopCh",
            {"tryAcquireLease:153", "releaseLeadershipOnExit:268"}) @@
    "releaseLeadershipOnExit:268" :>
        Row("Lock", "ec", {"releaseLeadershipOnExit:280",
                           "releaseLeadershipOnExit:271"}) @@
    "releaseLeadershipOnExit:280" :>
        Row("backend", "ReleaseLease", {"releaseLeadershipOnExit:287"}) @@
    "releaseLeadershipOnExit:287" :>
        Row("go", "OnLoseLeadership", {"releaseLeadershipOnExit:271"}) @@
    "releaseLeadershipOnExit:271" :> Row("Unlock", "ec", {"run:128"}) @@
    "run:128" :> Row("close", "stoppedCh", {"exited"})

\* The select of run, and what run defers: releaseLeadershipOnExit, which
\* clears isLeader under ec.mu and, if it was set, calls ReleaseLease and
\* OnStoppedLeading (which hands OnLoseLeadership to a goroutine and waits
\* for it no longer than the timeout), and close(stoppedCh).
runSteps ==
    "run:138" :>
        Row("select", "stopCh",
            {"tryAcquireLease:153", "releaseLeadershipOnExit:268"}) @@
    "releaseLeadershipOnExit:268" :>
        Row("Lock", "ec", {"releaseLeadershipOnExit:271"}) @@
    "releaseLeadershipOnExit:271" :>
        Row("Unlock", "ec", {"releaseLeadershipOnExit:280", "run:128"}) @@
    "releaseLeadershipOnExit:280" :>
        Row("backend", "ReleaseLease", {"releaseLeadershipOnExit:287"}) @@
    "releaseLeadershipOnExit:287" :> Row("go", "OnLoseLeadership", {"run:128"}) @@
    "run:128" :> Row("close", "stoppedCh", {"exited"})

\* LeaderAwareServer.OnBecomeLeader / OnLoseLeadership.
OnBecomeLeaderSteps ==
    "OnBecomeLeader:66" :> Row("Lock", "las", {"OnBecomeLeader:69"}) @@
    "OnBecomeLeader:69" :> Row("Unlock", "las", {"idle"})

OnLoseLeadershipSteps ==
    "OnLoseLeadership:76" :> Row("Lock", "las", {"OnLoseLeadership:79"}) @@
    "OnLoseLeadership:79" :> Row("Unlock", "las", {"idle"})

\* Seal / Unseal, called again and again: checkLeadership, then the wrapped
\* Server or createNotLeaderError, which calls GetCurrentLeader.
SealSteps ==
    "idle" :> Row("RLock", "las", {"checkLeadership:122"}) @@
    "checkLeadership:122" :>
        Row("RUnlock", "las", {"idle", "GetCurrentLeader:106"}) @@
    "GetCurrentLeader:106" :> Row("RLock", "ec", {"GetCurrentLeader:108"}) @@
    "GetCurrentLeader:108" :> Row("RUnlock", "ec", {"idle"})

\* GetLeadershipInfo, called again and again: GetMetrics is called with
\* las.mu held for reading.
GetLeadershipInfoSteps ==
    "idle" :> Row("RLock", "las", {"GetMetrics:113"}) @@
    "GetMetrics:113" :> Row("RLock", "ec", {"GetMetrics:116"}) @@
    "GetMetrics:116" :> Row("RUnlock", "ec", {"GetLeadershipInfo:144"}) @@
    "GetLeadershipInfo:144" :> Row("RUnlock", "las", {"idle"})

\* What each goroutine executes.
Steps ==
    [main |-> StartSteps @@ StopSteps,
     run |-> tryAcquireLeaseSteps @@ updateLeadershipStateSteps @@
             stepDownSteps @@ runSteps,
     callback |-> OnBecomeLeaderSteps @@ OnLoseLeadershipSteps,
     request |-> SealSteps,
     info |-> GetLeadershipInfoSteps]

\* The goroutine that `go f()` launches, and its first statement.
Goroutine ==
    [run |-> "run", OnBecomeLeader |-> "callback",
     OnLoseLeadership |-> "callback"]
Entry ==
    [run |-> "tryAcquireLease:153", OnBecomeLeader |-> "OnBecomeLeader:66",
     OnLoseLeadership |-> "OnLoseLeadership:76"]

\* Goroutine t is about to execute a statement of kind op.
Runs(t, op) == th[t] \in DOMAIN Steps[t] /\ Steps[t][th[t]].op = op
\* The mutex, channel or goroutine that statement is about.
Of(t) == Steps[t][th[t]].m
\* Control goes on.
Goes(t) == \E p \in Steps[t][th[t]].next : th' = [th EXCEPT ![t] = p]

\* The rest of the state, which these steps leave alone.
electionVars ==
    <<clock, lease, pc, now, read, ret, isRunning, isLeader, currentLeader,
      ctxDone, gate, pending, req, api, wrap, metrics, env, notify>>

\* A call that touches no mutex, or a branch.
Call(t) ==
    /\ Runs(t, "call")
    /\ Goes(t)
    /\ UNCHANGED <<electionVars, stopCh, stoppedCh, mu>>

\* A call of the LeaseManager, which goes to the API server.
BackendCall(t) ==
    /\ Runs(t, "backend")
    /\ Goes(t)
    /\ UNCHANGED <<electionVars, stopCh, stoppedCh, mu>>

\* Lock(), first half: t gets the writers' mutex, which no goroutine that
\* holds the RWMutex for writing or is about to has given back.
Announce(t) ==
    /\ Runs(t, "Lock")
    /\ mu[Of(t)].w = ""
    /\ mu[Of(t)].a = ""
    /\ mu' = [mu EXCEPT ![Of(t)].a = t]
    /\ UNCHANGED <<electionVars, stopCh, stoppedCh, th>>

\* Lock() returns: the readers have left.
Lock(t) ==
    /\ Runs(t, "Lock")
    /\ mu[Of(t)].a = t
    /\ mu[Of(t)].r = {}
    /\ mu' = [mu EXCEPT ![Of(t)].w = t, ![Of(t)].a = ""]
    /\ Goes(t)
    /\ UNCHANGED <<electionVars, stopCh, stoppedCh>>

\* Unlock(): the goroutines blocked in RLock are let in, then the writers'
\* mutex is given back.
Unlock(t) ==
    /\ Runs(t, "Unlock")
    /\ mu' = [mu EXCEPT ![Of(t)].w = "",
                        ![Of(t)].r = @ \cup mu[Of(t)].p,
                        ![Of(t)].p = {}]
    /\ Goes(t)
    /\ UNCHANGED <<electionVars, stopCh, stoppedCh>>

\* RLock() returns at once: no goroutine holds the mutex for writing or is
\* about to.
RLock(t) ==
    /\ Runs(t, "RLock")
    /\ t \notin mu[Of(t)].r \cup mu[Of(t)].p
    /\ mu[Of(t)].w = ""
    /\ mu[Of(t)].a = ""
    /\ mu' = [mu EXCEPT ![Of(t)].r = @ \cup {t}]
    /\ Goes(t)
    /\ UNCHANGED <<electionVars, stopCh, stoppedCh>>

\* RLock() blocks behind a goroutine that is in Lock or holds the mutex.
RLockBlocks(t) ==
    /\ Runs(t, "RLock")
    /\ t \notin mu[Of(t)].r \cup mu[Of(t)].p
    /\ mu[Of(t)].w # "" \/ mu[Of(t)].a # ""
    /\ mu' = [mu EXCEPT ![Of(t)].p = @ \cup {t}]
    /\ UNCHANGED <<electionVars, stopCh, stoppedCh, th>>

\* RLock() returns after an Unlock has let t in.
RLockWakes(t) ==
    /\ Runs(t, "RLock")
    /\ t \in mu[Of(t)].r
    /\ Goes(t)
    /\ UNCHANGED <<electionVars, stopCh, stoppedCh, mu>>

RUnlock(t) ==
    /\ Runs(t, "RUnlock")
    /\ mu' = [mu EXCEPT ![Of(t)].r = @ \ {t}]
    /\ Goes(t)
    /\ UNCHANGED <<electionVars, stopCh, stoppedCh>>

\* `go f()`: the goroutine begins at the first statement of f; one that is
\* launched while the last of its kind has not finished stands for both.
Go(t) ==
    /\ Runs(t, "go")
    /\ \E p \in Steps[t][th[t]].next :
          th' = [th EXCEPT ![t] = p,
                           ![Goroutine[Of(t)]] =
                               IF @ = "idle" THEN Entry[Of(t)] ELSE @]
    /\ UNCHANGED <<electionVars, stopCh, stoppedCh, mu>>

\* close(ec.stopCh) / close(ec.stoppedCh).
Close(t) ==
    /\ Runs(t, "close")
    /\ IF Of(t) = "stopCh"
       THEN /\ stopCh' = [stopCh EXCEPT ![Solo] = TRUE]
            /\ UNCHANGED stoppedCh
       ELSE /\ stoppedCh' = [stoppedCh EXCEPT ![Solo] = TRUE]
            /\ UNCHANGED stopCh
    /\ Goes(t)
    /\ UNCHANGED <<electionVars, mu>>

\* <-ec.stoppedCh returns once the channel is closed.
ChanReceive(t) ==
    /\ Runs(t, "receive")
    /\ stoppedCh[Solo]
    /\ Goes(t)
    /\ UNCHANGED <<electionVars, stopCh, stoppedCh, mu>>

\* The select of run takes the ticker, or stopCh once it is closed.
Select(t) ==
    /\ Runs(t, "select")
    /\ \E p \in Steps[t][th[t]].next :
          /\ p = "releaseLeadershipOnExit:268" => stopCh[Solo]
          /\ th' = [th EXCEPT ![t] = p]
    /\ UNCHANGED <<electionVars, stopCh, stoppedCh, mu>>

\* One statement of goroutine t.
Step(t) ==
    \/ Call(t)
    \/ BackendCall(t)
    \/ Announce(t)
    \/ Lock(t)
    \/ Unlock(t)
    \/ RLock(t)
    \/ RLockBlocks(t)
    \/ RLockWakes(t)
    \/ RUnlock(t)
    \/ Go(t)
    \/ Close(t)
    \/ ChanReceive(t)
    \/ Select(t)

NextLocks == \E t \in Threads : Step(t)

\* Every goroutine that can run is scheduled, and a goroutine in Lock gets
\* the writers' mutex if it is free again and again: sync.Mutex hands a
\* starving waiter the mutex.
FairLocks == \A t \in Threads : WF_vars(Step(t)) /\ SF_vars(Announce(t))

SpecLocks == Init /\ [][NextLocks]_vars /\ FairLocks

\* ======================================================================
\* Properties
\* ======================================================================
\* AcquireLease of c goes from its Get to its return in this step.
Decides(c) == pc[c] = "decide" /\ pc'[c] = "result"

\* The Lease l, held, is past its renewTime + leaseDuration at time t.
Expired(l, t) == l.renewTime # NilTime /\ l.renewTime + l.duration < t

\* What AcquireLease returns.
Acquired == [acquired |-> TRUE, err |-> "nil"]
Contended == [acquired |-> FALSE, err |-> "nil"]
Returned(c) == [acquired |-> ret[c].acquired, err |-> ret[c].err]

\* ---------------------------------------------------------------- C1
\* C1: among the controllers that share the lease, at most one has
\* isLeader = TRUE, in every reachable state.
C1_AtMostOneLeader == Cardinality({c \in Ids : isLeader[c]}) <= 1

\* ---------------------------------------------------------------- C2
\* C2: among the instances that share the lease, at most one gate has
\* checkLeadership() = TRUE, in every reachable state.
C2_AtMostOneActive == Cardinality({i \in Ids : checkLeadership(i)}) <= 1

\* ---------------------------------------------------------------- C3
\* Two AcquireLease calls have both found no Lease and both issued Create.
CreateRace(c, d) ==
    /\ c # d
    /\ pc[c] = "result" /\ pc[d] = "result"
    /\ read[c].status = "notfound" /\ read[d].status = "notfound"
    /\ ret[c].call = "create" /\ ret[d].call = "create"

\* C3 as stated: of two controllers racing to create the lease at most one
\* gets acquired = TRUE, and the other gets acquired = FALSE with no error.
C3_LoserSeesNoError ==
    \A c, d \in Ids :
        CreateRace(c, d) =>
            /\ ~(ret[c].acquired /\ ret[d].acquired)
            /\ ret[c].acquired => Returned(d) = Contended

\* C3 amended: of two controllers racing to create the lease at most one
\* gets acquired = TRUE, and the other gets acquired = FALSE together with
\* the error of its failed Create.
C3_LoserSeesCreateError ==
    \A c, d \in Ids :
        CreateRace(c, d) =>
            /\ ~(ret[c].acquired /\ ret[d].acquired)
            /\ ret[c].acquired =>
                   Returned(d) = [acquired |-> FALSE,
                                  err |-> "failed to create lease"]

C3_Witness ==
    \E c, d \in Ids :
        /\ CreateRace(c, d)
        /\ Returned(c) = Acquired
        /\ ret[d].err = "failed to create lease"
        /\ lease.holder = c

\* ---------------------------------------------------------------- C4
\* C4: renewal.  When AcquireLease of c reads a Lease that c holds and that
\* has not expired, it issues the Update, and unless the Update fails it
\* returns (true, nil) and the stored Lease is the one it read with only
\* renewTime changed (to now): holder, acquireTime, leaseTransitions and
\* duration are as read.  A failed Update leaves the Lease alone.
C4_RenewalIdempotent ==
    [][\A c \in Ids :
          (/\ Decides(c)
           /\ read[c].status = "ok"
           /\ read[c].lease.holder = c
           /\ ~Expired(read[c].lease, now[c]))
          => /\ ret'[c].call = "update"
             /\ ret'[c].err = "nil" =>
                    /\ ret'[c].acquired
                    /\ lease'.holder = c
                    /\ lease'.acquireTime = read[c].lease.acquireTime
                    /\ lease'.transitions = read[c].lease.transitions
                    /\ lease'.duration = read[c].lease.duration
                    /\ lease'.renewTime = now[c]
                    /\ lease'.exists
             /\ ret'[c].err # "nil" => ~ret'[c].acquired /\ lease' = lease
      ]_vars

C4_Witness ==
    \E c \in Ids :
        /\ pc[c] = "result"
        /\ read[c].status = "ok"
        /\ read[c].lease.holder = c
        /\ ~Expired(read[c].lease, now[c])
        /\ read[c].lease.renewTime < now[c]
        /\ Returned(c) = Acquired
        /\ lease = [read[c].lease EXCEPT !.renewTime = now[c]]

\* ---------------------------------------------------------------- C5
\* The Lease l is held by an identity other than self.
HeldByOther(self, l) == l.holder # NilId /\ l.holder # self

\* C5: expiry takeover.  When AcquireLease of c reads a Lease held by another
\* identity with renewTime + leaseDuration < now, it issues the Update, and
\* unless the Update fails it returns (true, nil) and the stored Lease has
\* holder = c, acquireTime = renewTime = now and leaseTransitions one more
\* than read.
C5_ExpiryTakeover ==
    [][\A c \in Ids :
          (/\ Decides(c)
           /\ read[c].status = "ok"
           /\ HeldByOther(c, read[c].lease)
           /\ Expired(read[c].lease, now[c]))
          => /\ ret'[c].call = "update"
             /\ ret'[c].err = "nil" =>
                    /\ ret'[c].acquired
                    /\ lease'.holder = c
                    /\ lease'.acquireTime = now[c]
                    /\ lease'.renewTime = now[c]
                    /\ lease'.transitions = read[c].lease.transitions + 1
                    /\ lease'.duration = read[c].lease.duration
                    /\ lease'.exists
             /\ ret'[c].err # "nil" => ~ret'[c].acquired /\ lease' = lease
      ]_vars

C5_Witness ==
    \E c \in Ids :
        /\ pc[c] = "result"
        /\ read[c].status = "ok"
        /\ HeldByOther(c, read[c].lease)
        /\ Expired(read[c].lease, now[c])
        /\ Returned(c) = Acquired
        /\ lease.holder = c
        /\ lease.transitions = 1
        /\ lease.acquireTime = now[c]

\* ---------------------------------------------------------------- C6
\* C6: creation.  When there is no Lease, AcquireLease of c issues the
\* Create, and unless the Create fails it returns (true, nil) and the stored
\* Lease has holder = c, acquireTime = renewTime = now, leaseTransitions = 0.
C6_CreatesLease ==
    [][\A c \in Ids :
          (/\ Decides(c)
           /\ read[c].status # "ok"
           /\ ~lease.exists)
          => /\ ret'[c].call = "create"
             /\ ret'[c].err = "nil" =>
                    /\ ret'[c].acquired
                    /\ lease'.exists
                    /\ lease'.holder = c
                    /\ lease'.acquireTime = now[c]
                    /\ lease'.renewTime = now[c]
                    /\ lease'.transitions = 0
                    /\ lease'.duration = LeaseDuration
             /\ ret'[c].err # "nil" => ~ret'[c].acquired /\ lease' = lease
      ]_vars

C6_Witness ==
    \E c \in Ids :
        /\ pc[c] = "result"
        /\ read[c].status = "notfound"
        /\ Returned(c) = Acquired
        /\ ret[c].call = "create"
        /\ lease.holder = c
        /\ lease.transitions = 0
        /\ lease.acquireTime = now[c]
        /\ lease.renewTime = now[c]

\* ---------------------------------------------------------------- C7
\* C7: contention.  When AcquireLease of c reads a Lease held by another
\* identity, with a renewTime and not expired, it returns (false, nil),
\* issues no write and the stored Lease stays as it is in every field.
C7_ContentionNoError ==
    [][\A c \in Ids :
          (/\ Decides(c)
           /\ read[c].status = "ok"
           /\ HeldByOther(c, read[c].lease)
           /\ read[c].lease.renewTime # NilTime
           /\ ~Expired(read[c].lease, now[c]))
          => /\ ret'[c] = [acquired |-> FALSE, err |-> "nil", call |-> "none"]
             /\ lease' = lease
      ]_vars

C7_Witness ==
    \E c \in Ids :
        /\ pc[c] = "result"
        /\ read[c].status = "ok"
        /\ HeldByOther(c, read[c].lease)
        /\ ~Expired(read[c].lease, now[c])
        /\ ret[c] = [acquired |-> FALSE, err |-> "nil", call |-> "none"]
        /\ lease = read[c].lease

\* ---------------------------------------------------------------- C8
\* tryAcquireLease of c handles an error of AcquireLease while c leads.
FailsWhileLeading(c) ==
    /\ pc[c] = "result" /\ ret[c].err # "nil" /\ isLeader[c]
    /\ pc'[c] = "select"

\* C8: when AcquireLease fails while the controller leads, the controller is
\* no leader any more and the gate admits no query once the failed attempt
\* has been handled, and OnStoppedLeading is launched exactly once.
C8_StepDownClosesGate ==
    [][\A c \in Ids :
          FailsWhileLeading(c) =>
              /\ ~isLeader'[c]
              /\ ~checkLeadership(c)'
              /\ pending'[c].lose = pending[c].lose + 1
      ]_vars

\* ---------------------------------------------------------------- C9
\* C9: the gate admits nothing while the controller's isLeader is FALSE.
C9_GateFailClosed == \A c \in Ids : ~isLeader[c] => ~checkLeadership(c)

\* --------------------------------------------------------------- C10
\* C10: a gated Seal or Unseal has called the wrapped Server if and only if
\* checkLeadership answered TRUE when the gate asked; an admitted call
\* returns what the wrapped Server returned, and a call that is not admitted
\* returns a rejection instead.
C10_ForwardsIffAdmitted ==
    req.stage = "done" =>
        /\ req.invoked <=> req.admitted
        /\ req.admitted =>
               req.inner \in ServiceResults /\ req.result = req.inner
        /\ ~req.admitted =>
               req.inner = "" /\ req.result \notin ServiceResults

\* An admitted request is answered with the wrapped Server's error after
\* the gate has closed.
C10_Witness ==
    /\ req.stage = "done"
    /\ req.op = "Seal"
    /\ req.admitted /\ req.invoked
    /\ req.result = "error"
    /\ ~checkLeadership(req.inst)

\* --------------------------------------------------------------- C11
\* The gate rejects the request it has checked: Seal / Unseal return
\* createNotLeaderError().
Rejects ==
    /\ req.stage = "checked" /\ ~req.admitted
    /\ req'.stage = "done"

\* The two rejections, as status messages.
NoLeaderKnown == "Unavailable: No leader elected"
NotLeader(id) == "Unavailable: Not the leader - current leader is " \o id

\* C11: every rejection of the gate is one of two kinds, chosen by the
\* currentLeader of the gate's controller when the request is rejected:
\* "not leader" naming that identity when it is not empty, "no leader"
\* with no identity when it is empty; the wrapped Server is not called.
C11_RejectionKinds ==
    [][Rejects =>
          LET leader == currentLeader[req.inst]
          IN  /\ ~req'.invoked
              /\ leader = "" => req'.result = NoLeaderKnown
              /\ \A id \in Ids : leader = id => req'.result = NotLeader(id)
      ]_vars

\* The gate of A, not leading, has rejected a request while its controller
\* knew B as the leader: the rejection names B.
C11_Witness ==
    /\ req.stage = "done" /\ req.inst = "A"
    /\ ~req.admitted /\ ~req.invoked
    /\ ~gate["A"].isLeader
    /\ currentLeader["A"] = "B"
    /\ req.result = "Unavailable: Not the leader - current leader is B"

\* --------------------------------------------------------------- C12
\* C12: in the program as main assembles it, once the running controller of
\* an instance has recorded a currentLeader, every rejection of that
\* instance's gate names that identity.
C12_RejectionNamesLeader ==
    [][Rejects =>
          \A id \in Ids :
              currentLeader[req.inst] = id => req'.result = NotLeader(id)
      ]_vars

\* --------------------------------------------------------------- C13
\* The goroutine run of c takes this step.  (The other steps that change
\* pc[c] are those of Start, and of a Stop that panics and ends the process
\* from its caller's goroutine.)
LoopSteps(c) == pc'[c] # pc[c] /\ isRunning'[c] = isRunning[c]

\* The loop of c leaves its select for good: run returns.
LoopExits(c) ==
    LoopSteps(c) /\ pc[c] = "select" /\ pc'[c] \notin {"select", "get"}

\* The step of c's loop that ends releaseLeadershipOnExit.
ShutdownEnds(c) == LoopSteps(c) /\ pc[c] = "released"

\* OnLoseLeadership of c is fired once in this step: it runs, or its
\* goroutine is left behind by the callback's timeout.
FiresLoseOnce(c) ==
    \/ gate'[c] = OnLoseLeadership(gate[c]) /\ pending' = pending
    \/ pending' = [pending EXCEPT ![c].lose = @ + 1] /\ gate' = gate

\* C13: when the loop exits (Stop or cancelled context) and the controller
\* leads, isLeader is cleared, ReleaseLease is attempted once (one Get, at
\* most one Update of the Lease, which may fail) and then OnLoseLeadership
\* is fired exactly once, whatever the release did; when the controller
\* does not lead, the loop ends with no release and no callback.
C13_ShutdownReleasesOnce ==
    [][\A c \in Ids :
          /\ LoopExits(c) =>
                 IF isLeader[c]
                 THEN /\ ~isLeader'[c] /\ pc'[c] = "release"
                      /\ lease' = lease /\ gate' = gate /\ pending' = pending
                 ELSE /\ pc'[c] \in {"exited", "panic"} /\ stoppedCh'[c]
                      /\ ~isLeader'[c]
                      /\ lease' = lease /\ gate' = gate /\ pending' = pending
          /\ (LoopSteps(c) /\ pc[c] = "release") =>
                 /\ pc'[c] \in {"clear", "released"}
                 /\ lease' = lease /\ gate' = gate /\ pending' = pending
          /\ (LoopSteps(c) /\ pc[c] = "clear") =>
                 /\ pc'[c] = "released"
                 /\ lease' \in {lease, ReleasedLease(read[c].lease)}
                 /\ gate' = gate /\ pending' = pending
          /\ ShutdownEnds(c) =>
                 /\ FiresLoseOnce(c)
                 /\ pc'[c] \in {"exited", "panic"}
                 /\ lease' = lease /\ stoppedCh'[c] /\ ~isLeader'[c]
      ]_vars

\* The loop of a leading controller has ended: the Get of its ReleaseLease
\* failed, the instance still holds the Lease, and OnLoseLeadership has
\* closed the gate.
C13_Witness ==
    \E c \in Ids :
        /\ pc[c] = "exited" /\ stoppedCh[c]
        /\ read[c].status = "failed"
        /\ lease.exists /\ lease.holder = c
        /\ ~isLeader[c]
        /\ gate[c] = OnLoseLeadership(gate[c])
        /\ pending[c].lose = 0

\* --------------------------------------------------------------- C14
\* Goroutine k gets the return of a Start on controller c in this step.
StartReturns(k, c) ==
    api'[k] # api[k] /\ api'[k].op = "Start" /\ api'[k].on = c

\* C14: a Start on a controller whose isRunning is set returns the error
\* "already running", launches no loop and changes nothing; a Start on a
\* controller that is not running sets isRunning, launches the loop and
\* returns nil before the loop has made any lease attempt.
C14_StartOnlyOnce ==
    [][\A k \in Callers, c \in Ids :
          StartReturns(k, c) =>
              IF isRunning[c]
              THEN /\ api'[k].err = "election controller is already running"
                   /\ UNCHANGED <<clock, lease, ctrlVars, gate, pending, req, wrap,
                                  metrics, env, notify, mu, th>>
              ELSE /\ api'[k].err = "nil"
                   /\ isRunning'[c]
                   /\ pc'[c] = "start"
                   /\ UNCHANGED <<clock, lease, now, read, ret, isLeader,
                                  currentLeader, gate, pending, wrap,
                                  metrics, env, notify, mu, th>>
      ]_vars

\* A Start has been refused while the loop launched by another Start was in
\* the middle of a lease attempt, which went on.
C14_Witness ==
    \E c \in Ids :
        /\ api["g1"] = Called("Start", c, "nil")
        /\ api["g2"] = Called("Start", c, "election controller is already running")
        /\ isRunning[c]
        /\ pc[c] = "result" /\ Returned(c) = Acquired

\* --------------------------------------------------------------- C15
\* Goroutine k's Stop on controller c ends in this step: it returns, or it
\* panics.
StopEnds(k, c) ==
    /\ api'[k] # api[k] /\ api'[k].op = "Stop" /\ api'[k].on = c
    /\ api'[k].stage \in {"returned", "panicked"}

\* C15: every Stop on a controller that has been started, a second Stop and
\* a Stop concurrent with another one included, returns without a panic and
\* only once the loop has finished its shutdown path; a Stop on a controller
\* that was never started returns at once.
C15_StopBlocksUntilExit ==
    [][\A k \in Callers, c \in Ids :
          StopEnds(k, c) =>
              /\ api'[k].stage = "returned"
              /\ pc[c] # "new" => pc'[c] = "exited" /\ stoppedCh'[c]
      ]_vars

\* --------------------------------------------------------------- C16
\* ReleaseLease of c takes a step.
Releases(c) == pc[c] \in {"release", "clear"} /\ pc'[c] # pc[c]

HolderGone ==
    /\ ~Alive(Holder)
    /\ (lease.exists /\ lease.holder = Holder) =>
           /\ lease.renewTime + lease.duration < MaxTime
           /\ lease.transitions < MaxTransitions

\* C17: when the holder of the lease has stopped renewing for good while
\* the other controller keeps running its loop against an available
\* backend and time advances, that controller eventually holds the Lease
\* and has isLeader = TRUE.
C17_Failover ==
    HolderGone ~> (isLeader[Standby] /\ lease.holder = Standby)

\* The Standby leads after it took over the expired Lease of the dead
\* Holder.
C17_Witness ==
    /\ ~Alive(Holder)
    /\ isLeader[Standby]
    /\ lease.holder = Standby
    /\ lease.transitions = 1
    /\ lease.acquireTime > LeaseDuration

\* --------------------------------------------------------------- C18
\* C18: a construction with the empty identity returns an error and builds
\* no manager and no controller, and no read or write of the Lease is ever
\* issued under the empty identity.
C18_NoEmptyIdentity ==
    /\ pc[""] = "unbuilt"
    /\ read[""] = NoRead /\ ret[""] = NoRet
    /\ ~isRunning[""] /\ ~isLeader[""]
    /\ lease.holder # ""
    /\ \A k \in Callers :
           (api[k].op = "NewElectionController" /\ api[k].on = "") =>
               api[k].err =
                   "failed to create lease manager: lease identity cannot be empty"

\* A construction with the empty identity has been refused while a
\* controller built with an identity holds the Lease.
C18_Witness ==
    /\ api["g1"].op = "NewElectionController" /\ api["g1"].on = ""
    /\ api["g1"].stage = "returned" /\ api["g1"].err # "nil"
    /\ api["g2"] = Called("NewElectionController", "A", "nil")
    /\ isLeader["A"] /\ lease.holder = "A"

\* --------------------------------------------------------------- C19
\* The callback returns in this step.
WrapperReturns == wrap.stage = "select" /\ wrap'.stage = "returned"

\* fn is entered at most once for each call of the callback, not at all
\* when it is nil, and once when the callback has seen it complete.
CalledOnce ==
    /\ wrap.calls <= 1
    /\ ~wrap.fn => wrap.calls = 0 /\ wrap.stage # "select"
    /\ wrap.fnState \in {"running", "done"} <=> wrap.calls = 1
    /\ wrap.how = "done" => wrap.fnState = "done"

Iterating(c) == pc[c] \in {"start", "select", "get", "decide", "result"}

\* A callback launched by the loop of c hangs.
Stuck(c) == pending[c].stuck # {}

\* C20: the loop never waits for a callback it has launched.  With a
\* callback that never returns, a loop waiting in its select still runs its
\* next iteration (or leaves), an iteration still comes to its end, and a
\* loop that is told to stop, or whose context is cancelled, still leaves.
C20_LoopNeverWaits ==
    /\ (Stuck(Solo) /\ pc[Solo] = "select")
           ~> (pc[Solo] = "get" \/ ~Iterating(Solo))
    /\ (Stuck(Solo) /\ pc[Solo] \in {"get", "decide", "result"})
           ~> (pc[Solo] = "select" \/ ~Iterating(Solo))
    /\ (Stuck(Solo) /\ Iterating(Solo) /\ (stopCh[Solo] \/ ctxDone[Solo]))
           ~> ~Iterating(Solo)

\* With OnBecomeLeader hanging (the gate never opened), the loop has renewed
\* the Lease in a later iteration.
C20_Witness ==
    /\ "become" \in pending[Solo].stuck
    /\ ~gate[Solo].isActive
    /\ isLeader[Solo]
    /\ pc[Solo] = "result"
    /\ read[Solo].status = "ok" /\ read[Solo].lease.holder = Solo
    /\ Returned(Solo) = Acquired /\ ret[Solo].call = "update"

\* --------------------------------------------------------------- C21
\* A variable of the environment is set and not empty.
IsSet(v) == v # Unset /\ v # ""

\* C21: DefaultIdentity returns LEADER_ELECTION_IDENTITY when it is set and
\* not empty, otherwise POD_NAME when it is set and not empty, otherwise the
\* host name (where the kernel reports one), and what it returns is never
\* the empty string.
C21_IdentityNeverEmpty ==
    [][env'.returned # env.returned =>
          /\ IsSet(env.LEADER_ELECTION_IDENTITY) =>
                 env'.returned = env.LEADER_ELECTION_IDENTITY
          /\ ~IsSet(env.LEADER_ELECTION_IDENTITY) /\ IsSet(env.POD_NAME) =>
                 env'.returned = env.POD_NAME
          /\ (/\ ~IsSet(env.LEADER_ELECTION_IDENTITY)
              /\ ~IsSet(env.POD_NAME)
              /\ ~env.hostnameErr) =>
                 env'.returned = env.hostname
          /\ env'.returned # ""
      ]_vars

\* --------------------------------------------------------------- C22
\* C22: when an iteration of the loop of c ends with updateLeadershipState,
\* AcquireLease and GetLeaseInfo having both succeeded, isLeader is TRUE
\* exactly if the holder in the snapshot GetLeaseInfo took is c, and
\* currentLeader is the holder in that snapshot; so isLeader implies
\* currentLeader = c after the update.
C22_LeaderIffSnapshotHolder ==
    [][\A c \in Ids :
          updateLeadershipState(c) =>
              /\ isLeader'[c] <=> InfoHolder(lease) = c
              /\ currentLeader'[c] = InfoHolder(lease)
              /\ isLeader'[c] => currentLeader'[c] = c
      ]_vars

\* --------------------------------------------------------------- C23
\* C23: when AcquireLease of c has read a Lease that exists, it issues the
\* Update if and only if the holder read is c, or no holder is set, or no
\* renewTime is set, or now > renewTime + leaseDuration; at
\* now = renewTime + leaseDuration a Lease held by another identity is left
\* alone.
C23_WritesIffEligible ==
    [][\A c \in Ids :
          (Decides(c) /\ read[c].status = "ok") =>
              LET l == read[c].lease
              IN  /\ ret'[c].call = "update" <=>
                         \/ l.holder = c
                         \/ l.holder = NilId
                         \/ l.renewTime = NilTime
                         \/ now[c] > l.renewTime + LeaseDuration
                  /\ ret'[c].call # "update" =>
                         ret'[c].call = "none" /\ lease' = lease
      ]_vars

\* AcquireLease has left alone a Lease of another holder that it read at
\* exactly renewTime + leaseDuration.
C23_Witness ==
    \E c \in Ids :
        /\ pc[c] = "result"
        /\ read[c].status = "ok"
        /\ HeldByOther(c, read[c].lease)
        /\ now[c] = read[c].lease.renewTime + LeaseDuration
        /\ ret[c].call = "none"
        /\ \E d \in Ids :
              /\ d # c /\ pc[d] = "result" /\ ret[d].call = "update"
              /\ read[d].lease.holder = NilId

\* --------------------------------------------------------------- C24
\* A write changes the Lease that exists.
Rewrites == lease.exists /\ lease' # lease

\* C24 as stated: a write to the Lease adds one to leaseTransitions exactly
\* if the holder after it differs from the holder before it, and leaves the
\* count alone otherwise; the count never decreases.
C24_CountsHolderChanges ==
    [][Rewrites =>
          /\ lease'.transitions =
                 lease.transitions + (IF lease'.holder # lease.holder
                                      THEN 1 ELSE 0)
          /\ lease'.transitions >= lease.transitions
      ]_vars

\* C24 amended: a write to the Lease adds one to leaseTransitions exactly if
\* it installs a holder, one that differs from the holder before it (no
\* holder included); a release, which clears the holder, and a renewal leave
\* the count alone; the count never decreases (short of the int32 limit).
C24_CountsNewHolders ==
    [][(Rewrites /\ lease.transitions < MaxInt32) =>
          /\ lease'.transitions =
                 lease.transitions +
                     (IF lease'.holder # NilId /\ lease'.holder # lease.holder
                      THEN 1 ELSE 0)
          /\ lease'.transitions >= lease.transitions
      ]_vars

\* A Lease that was released and acquired again: the holder has changed
\* twice, and the count is 1.
C24_Witness ==
    \E c \in Ids :
        /\ pc[c] = "result"
        /\ read[c].status = "ok"
        /\ read[c].lease.holder = NilId
        /\ read[c].lease.transitions = 0
        /\ ret[c].call = "update"
        /\ lease.holder = c
        /\ lease.transitions = 1

\* --------------------------------------------------------------- C25
\* C25: a release that succeeds clears holder, acquireTime and renewTime and
\* leaves leaseTransitions and the duration as they were; and AcquireLease of
\* any c that reads a Lease without holder issues the Update whatever the
\* time, and unless the Update fails it returns (true, nil) and the stored
\* Lease has holder = c and leaseTransitions one more than read.
C25_AcquireAfterRelease ==
    [][\A c \in Ids :
          /\ (pc[c] = "clear" /\ pc'[c] = "released" /\ lease' # lease) =>
                 /\ lease.holder = c
                 /\ lease'.holder = NilId
                 /\ lease'.acquireTime = NilTime
                 /\ lease'.renewTime = NilTime
                 /\ lease'.transitions = lease.transitions
                 /\ lease'.duration = lease.duration
                 /\ lease'.exists
          /\ (/\ Decides(c)
              /\ read[c].status = "ok"
              /\ read[c].lease.holder = NilId) =>
                 /\ ret'[c].call = "update"
                 /\ ret'[c].err = "nil" =>
                        /\ ret'[c].acquired
                        /\ lease'.holder = c
                        /\ lease'.transitions = read[c].lease.transitions + 1
                        /\ lease'.acquireTime = now[c]
                        /\ lease'.renewTime = now[c]
                 /\ ret'[c].err # "nil" => ~ret'[c].acquired /\ lease' = lease
      ]_vars

\* The Lease was created, released and acquired again, released again and
\* acquired again, all within the same second.
C25_Witness ==
    \E c \in Ids :
        /\ clock = 0
        /\ pc[c] = "result"
        /\ read[c].status = "ok"
        /\ read[c].lease.holder = NilId
        /\ read[c].lease.renewTime = NilTime
        /\ read[c].lease.transitions = 1
        /\ Returned(c) = Acquired
        /\ lease.holder = c
        /\ lease.transitions = 2

\* --------------------------------------------------------------- C26
\* Controller c believes it leads, and the Lease its AcquireLease has read
\* is held by another identity and has not expired.
FalseBelief(c) ==
    /\ isLeader[c]
    /\ read[c].status = "ok"
    /\ HeldByOther(c, read[c].lease)
    /\ read[c].lease.renewTime # NilTime
    /\ ~Expired(read[c].lease, now[c])

\* C26: a controller that believes it leads after its write was overwritten
\* gives the belief up in the next iteration of its loop that completes:
\* when the iteration that read the Lease of the unexpired winner ends with
\* updateLeadershipState, isLeader is FALSE and OnStoppedLeading is launched.
C26_FalseBeliefEndsAtNextPoll ==
    [][\A c \in Ids :
          (FalseBelief(c) /\ updateLeadershipState(c)) =>
              /\ ~isLeader'[c]
              /\ pending'[c].lose = pending[c].lose + 1
      ]_vars

\* Split brain: c and d both believe they lead, c having learnt from the
\* snapshot of its last iteration that its write was overwritten by d; the
\* AcquireLease of c's next iteration has found the Lease of d unexpired
\* and returned (false, nil).
C26_Witness ==
    \E c, d \in Ids :
        /\ c # d
        /\ isLeader[d]
        /\ currentLeader[c] = d
        /\ FalseBelief(c)
        /\ pc[c] = "result"
        /\ ret[c] = [acquired |-> FALSE, err |-> "nil", call |-> "none"]
        /\ lease.holder = d

\* --------------------------------------------------------------- C27
\* An iteration of the loop of c ends on a backend failure: AcquireLease has
\* returned an error, or GetLeaseInfo has.
IterationFails(c) ==
    \/ AcquireFailed(c)
    \/ LeaseInfoFailed(c) /\ ~updateLeadershipState(c)

\* C27: when an iteration ends on a backend failure, of AcquireLease or of
\* GetLeaseInfo, one of the error counters is incremented; a controller that
\* leads steps down at once (isLeader cleared, OnStoppedLeading launched),
\* and one that does not lead stays as it is and waits for the next tick.
C27_FailureCountedAndStepDown ==
    [][\A c \in DOMAIN metrics :
          IterationFails(c) =>
              /\ metrics'[c].acquisitionErrors + metrics'[c].renewalErrors =
                     metrics[c].acquisitionErrors + metrics[c].renewalErrors + 1
              /\ isLeader[c] =>
                     /\ ~isLeader'[c]
                     /\ pending'[c].lose = pending[c].lose + 1
              /\ ~isLeader[c] =>
                     /\ ~isLeader'[c]
                     /\ pending'[c] = pending[c]
                     /\ pc'[c] = "select"
      ]_vars

\* --------------------------------------------------------------- C28
\* C28: AcquireLease issues the Create only when its Get has found no Lease;
\* when the Get fails for another reason it issues no write, leaves the
\* Lease alone and returns an error without having acquired; and one
\* AcquireLease issues at most one write after its one Get.
C28_CreatesOnlyWhenAbsent ==
    [][\A c \in Ids :
          Decides(c) =>
              /\ ret'[c].call = "create" => read[c].status = "notfound"
              /\ read[c].status = "failed" =>
                     /\ ret'[c].call = "none"
                     /\ ret'[c].err # "nil"
                     /\ ~ret'[c].acquired
                     /\ lease' = lease
              /\ ret'[c].call \in {"none", "create", "update"}
      ]_vars

\* --------------------------------------------------------------- C29
\* The context of the loop of c is cancelled while c leads and waits in the
\* select of run, whether a tick of the ticker is pending or not.
CancelledWhileLeading(c) == pc[c] = "select" /\ ctxDone[c] /\ isLeader[c]

\* C29: when the context of the loop is cancelled while the controller
\* leads, the loop comes to releaseLeadershipOnExit with the controller
\* still leading, so that ReleaseLease is called (and OnStoppedLeading after
\* it), whichever of ctx.Done() and the ticker the select takes first.
C29_CancelReleases ==
    CancelledWhileLeading(Solo) ~> pc[Solo] = "release"

\* --------------------------------------------------------------- C30
\* C30: leadershipChanges is incremented, and lastLeaderChange set to the
\* time, in exactly the steps in which isLeader changes, be it in an
\* iteration, in a step-down or at shutdown; in every other step the two
\* stay as they are.
C30_CountsLeaderFlips ==
    [][\A c \in DOMAIN metrics :
          IF isLeader'[c] # isLeader[c]
          THEN /\ metrics'[c].leadershipChanges =
                      metrics[c].leadershipChanges + 1
               /\ metrics'[c].lastLeaderChange = clock
          ELSE /\ metrics'[c].leadershipChanges = metrics[c].leadershipChanges
               /\ metrics'[c].lastLeaderChange = metrics[c].lastLeaderChange
      ]_vars

\* --------------------------------------------------------------- C31
\* tryAcquireLease of c returns after an error of AcquireLease.
ReturnsError(c) ==
    pc[c] = "result" /\ ret[c].err # "nil" /\ pc'[c] = "select"

\* C31: a tryAcquireLease that ends on an error of AcquireLease adds exactly
\* 1 to acquisitionErrors if the controller leads at that moment and to
\* renewalErrors otherwise, and leaves the other counter, currentLeader and
\* leadershipChanges as they are; and no step makes a counter smaller.
C31_OneErrorCounter ==
    [][\A c \in DOMAIN metrics :
          /\ ReturnsError(c) =>
                 /\ metrics'[c].acquisitionErrors =
                        metrics[c].acquisitionErrors +
                            (IF isLeader[c] THEN 1 ELSE 0)
                 /\ metrics'[c].renewalErrors =
                        metrics[c].renewalErrors +
                            (IF isLeader[c] THEN 0 ELSE 1)
                 /\ currentLeader'[c] = currentLeader[c]
                 /\ metrics'[c].leadershipChanges =
                        metrics[c].leadershipChanges
          /\ metrics'[c].acquisitionErrors >= metrics[c].acquisitionErrors
          /\ metrics'[c].renewalErrors >= metrics[c].renewalErrors
      ]_vars

\* The controller has failed once while it led and once while it did not,
\* and leads again.
C31_Witness ==
    /\ metrics[Solo].acquisitionErrors = 1
    /\ metrics[Solo].renewalErrors = 1
    /\ metrics[Solo].leadershipChanges = 2
    /\ isLeader[Solo]
    /\ pc[Solo] = "select"

\* ---------------------------------------------------------------- C32
\* An iteration of c launches a goroutine for OnNewLeader.
Launches(c) == Len(notify'[c].launched) > Len(notify[c].launched)

\* C32: an iteration launches onLeaderIdentityChanged exactly when the holder
\* identity of the snapshot it read differs from the currentLeader recorded
\* before, and every call of the callback receives the identity read by the
\* iteration that launched it, however the goroutine is scheduled.
C32_NewLeaderGetsIdentityRead ==
    [][\A c \in DOMAIN notify :
          /\ Launches(c) <=>
                 /\ updateLeadershipState(c)
                 /\ InfoHolder(lease) # currentLeader[c]
          /\ notify'[c].got = notify'[c].read]_vars

\* ---------------------------------------------------------------- C33
\* Every callback the controller of c has dispatched has run, and the loop
\* is not between clearing isLeader and calling OnStoppedLeading on exit.
CallbacksDone(c) ==
    /\ Alive(c)
    /\ pending[c].become = 0
    /\ pending[c].lose = 0
    /\ pending[c].stuck = {}
    /\ pc[c] \notin {"release", "clear", "released"}

\* C33: whatever the order in which the goroutines launched for
\* onBecomeLeader and onLoseLeadership run, once all of them have run the
\* gate admits exactly if the controller's isLeader is set.
C33_GateFollowsIsLeader ==
    \A c \in Ids : CallbacksDone(c) => (checkLeadership(c) <=> isLeader[c])

\* ---------------------------------------------------------------- C34
\* Goroutine t holds mutex m, or is in line for it.
Holds(m, t) == t \in {mu[m].w, mu[m].a} \cup mu[m].r \cup mu[m].p

\* C34: no goroutine holds the controller's state mutex, or stands in line
\* for it, while it is in a call of AcquireLease, GetLeaseInfo or
\* ReleaseLease; a read of the election state never waits for such a call.
C34_NoLockAcrossBackendCall ==
    \A t \in Threads : Runs(t, "backend") => ~Holds("ec", t)

\* GetMetrics reads the election state while the loop is in GetLeaseInfo.
C34_Witness ==
    /\ th["run"] = "tryAcquireLease:176"
    /\ "info" \in mu["ec"].r

\* ---------------------------------------------------------------- C35
\* The controller of c dispatches OnStartedLeading / OnStoppedLeading:
\* it launches the goroutine, or releaseLeadershipOnExit makes its call.
DispatchesBecome(c) == pending'[c].become > pending[c].become
DispatchesLose(c) ==
    \/ pending'[c].lose > pending[c].lose
    \/ pc[c] = "released" /\ pc'[c] # "released"

\* releaseLeadershipOnExit has cleared isLeader and has its call of
\* OnStoppedLeading still to make.
Releasing(c, at) == at[c] \in {"release", "clear", "released"}

\* C35: in the order of dispatch onBecomeLeader and onLoseLeadership
\* alternate, beginning with onBecomeLeader: onLoseLeadership is dispatched
\* only after an onBecomeLeader that no onLoseLeadership has followed, once
\* for each change of isLeader from true to false (with the step that clears
\* it, or by releaseLeadershipOnExit before the loop ends), and
\* onBecomeLeader never twice in a row.
C35_CallbacksAlternate ==
    [][\A c \in DOMAIN notify :
          /\ DispatchesBecome(c) => notify[c].last # "become"
          /\ DispatchesLose(c) => notify[c].last = "become"
          /\ isLeader[c] /\ ~isLeader'[c] =>
                DispatchesLose(c) \/ Releasing(c, pc')
          /\ Releasing(c, pc') => notify'[c].last = "become"
          /\ ~isLeader[c] /\ isLeader'[c] => DispatchesBecome(c)]_vars

\* The Standby has taken the Lease over and the instance, finding out, has
\* dispatched onLoseLeadership after its onBecomeLeader.
C35_Witness ==
    /\ notify[Solo].last = "lose"
    /\ pending[Solo].lose = 1
    /\ currentLeader[Solo] = Standby

\* ---------------------------------------------------------------- C36
\* C36: a controller that records its own identity as currentLeader has
\* isLeader set, so that a rejection by the gate never names the rejecting
\* instance as the leader.
C36_SelfLeaderIsLeading ==
    \A c \in Ids : currentLeader[c] = c => isLeader[c]

\* ---------------------------------------------------------------- C37
\* C37: whatever the sequence of Start and Stop calls on a controller,
\* neither stopCh nor stoppedCh is closed a second time: no call and no
\* election loop panics.
C37_ChannelsClosedOnce ==
    \A c \in Ids : pc[c] # "panic"

\* ---------------------------------------------------------------- C38
\* The goroutine run of controller c has been launched and has not returned.
LoopAlive(c) == pc[c] \notin {"new", "exited", "panic"}

\* C38: isRunning is set only while the election loop is alive: once the
\* loop has returned, for whatever reason, isRunning is false, and Start
\* fails with 'already running' only if a loop is running.
C38_RunningOnlyWhileLoopAlive ==
    \A c \in Ids : Alive(c) /\ isRunning[c] => LoopAlive(c)

\* ---------------------------------------------------------------- C39
\* A call of LeaderAwareServer.Stop on instance i has returned.
GateStopped(i) == api[Stopper] = Called("LeaderAwareServer.Stop", i, "nil")

\* C39: once LeaderAwareServer.Stop has returned the gate stays closed:
\* checkLeadership() and IsReady() are false from then on, whenever the
\* callbacks dispatched before or during the stop run.
C39_GateClosedAfterStop ==
    \A i \in Ids : GateStopped(i) => ~checkLeadership(i) /\ ~IsReady(i)

\* ---------------------------------------------------------------- C40
\* Goroutine t is about to take a mutex.
Acquiring(t) == Runs(t, "Lock") \/ Runs(t, "RLock")

\* Goroutine t cannot go on before goroutine u has: t is in Lock and u
\* holds the mutex or, t having the writers' mutex, u reads; t is in RLock
\* and u holds the mutex or is in Lock before it; t receives from the
\* channel that u is to close.
WaitsFor(t, u) ==
    \/ /\ Runs(t, "Lock")
       /\ IF mu[Of(t)].a = t
          THEN u \in mu[Of(t)].r
          ELSE u \in {mu[Of(t)].w, mu[Of(t)].a}
    \/ /\ Runs(t, "RLock")
       /\ t \notin mu[Of(t)].r
       /\ u \in {mu[Of(t)].w, mu[Of(t)].a}
    \/ /\ Runs(t, "receive")
       /\ ~stoppedCh[Solo]
       /\ u = "run"

\* The goroutines t waits for, directly or through n others at most.
RECURSIVE WaitsOn(_, _)
WaitsOn(t, n) ==
    LET direct == {u \in Threads : WaitsFor(t, u)}
    IN  IF n = 0 THEN direct
        ELSE direct \cup UNION {WaitsOn(u, n - 1) : u \in direct}

\* C40: no goroutine waits, directly or through others, for itself, and a
\* goroutine that is about to take las.mu or ec.mu gets it.
C40_NoLockCycle ==
    /\ [](\A t \in Threads : t \notin WaitsOn(t, Cardinality(Threads)))
    /\ \A t \in Threads : Acquiring(t) ~> ~Acquiring(t)

\* GetLeadershipInfo holds las.mu and waits for ec.mu, which the loop
\* holds, while OnBecomeLeader waits for las.mu.
C40_Witness ==
    /\ th["info"] = "GetMetrics:113"
    /\ mu["ec"].w = "run"
    /\ mu["las"].a = "callback"

====
